---- MODULE Spec2Model ----
(***************************************************************************)
(* Vessel Frame: the vessel state engine (VesselManager over the           *)
(* VesselRepository) and the in-process MessageBus.                        *)
(*                                                                         *)
(* Python dicts are functions whose domain is the set of keys present;     *)
(* the insertion order of VesselManager._vessels is kept by modelling the  *)
(* dict as the sequence of its items.  Python None is the string NoneVal   *)
(* for string-valued keys and NULL for the integer-valued SQL columns.     *)
(***************************************************************************)
EXTENDS Integers, Sequences, FiniteSets, TLC

(***************************************************************************)
(* Configuration and bounds                                                *)
(***************************************************************************)
\* max_tracked given to the VesselManager constructor (its default is 50)
MaxTracked == 2
\* last value of the wall clock (whole seconds)
MaxTime == 1
\* maxsize of a subscription's asyncio.Queue (1000 in the program)
QueueMaxSize == 2

\* min_interval of a render strategy, in units of the monotonic clock
MinInterval == 2

\* capacity of QueuedRenderStrategy._event_queue (20 in the code)
EventQueueMaxSize == 2

\* up to how many request_render calls between two renders are counted
MaxCalls == 2
\* number of requests made to one QueuedRenderStrategy: enough to overflow
MaxRequests == EventQueueMaxSize + 2
\* number of publishes of one behaviour of the bus: enough to overflow a queue
MaxPublishes == QueueMaxSize + 2

(***************************************************************************)
(* dict helpers                                                            *)
(***************************************************************************)
\* d.get(k, default)
Get(d, k, default) == IF k \in DOMAIN d THEN d[k] ELSE default

\* {**a, **b}: keys of b win
Merge(a, b) ==
    [k \in (DOMAIN a) \cup (DOMAIN b) |-> IF k \in DOMAIN b THEN b[k] ELSE a[k]]

\* {k: v for k, v in d.items() if k not in ks}
Without(d, ks) == [k \in (DOMAIN d) \ ks |-> d[k]]

\* {}
EmptyDict == << >>

\* Python None (string-valued keys) and SQL NULL (integer columns)
NoneVal == "<None>"
NULL == -1

(***************************************************************************)
(* Decoded messages                                                        *)
(***************************************************************************)
\* str(n) for a non-negative integer, as the sequence of its decimal digits
RECURSIVE Str(_)
Str(n) == IF n < 10 THEN <<n>> ELSE Append(Str(n \div 10), n % 10)

\* MMSIs of ships (9 digits, not starting with 111).  TrackedShip receives
\* every kind of message; the OtherShips only report one position and serve
\* to fill the in-memory map.
Ships == <<200000001, 200000002, 200000003>>
TrackedShip == Ships[1]
OtherShips == {Ships[2], Ships[3]}
ShipMMSI == {TrackedShip} \cup OtherShips
\* a base station (8 digits), a SAR aircraft (111...), a 10-digit identifier
OtherMMSI == {12345678, 111000001, 1234567890}

\* latitudes of the reported positions; every position lies on the meridian
\* lon = 0, in units of one degree
Lats == {1, 3, 5}

\* type 1 position report
PositionReport(m, lat) ==
    [mmsi |-> m, msg_type |-> 1, lat |-> lat, lon |-> 0]

\* type 5 static and voyage data; n selects the identity reported
StaticReport(m, n) ==
    [mmsi |-> m, msg_type |-> 5,
     imo |-> IF n = 1 THEN "9000001" ELSE "9000002",
     shipname |-> IF n = 1 THEN "ALPHA" ELSE "BRAVO",
     callsign |-> IF n = 1 THEN "CS1" ELSE "CS2",
     ship_type |-> IF n = 1 THEN 70 ELSE 80,
     to_bow |-> 10 * n, to_stern |-> 20 * n,
     to_port |-> 3 * n, to_starboard |-> 4 * n]

\* type 21 aid-to-navigation report: carries a "name" key and a position
AidToNavReport(m) ==
    [mmsi |-> m, msg_type |-> 21, name |-> "BUOY", lat |-> 1, lon |-> 0]

\* type 24 class B static report, part A: carries shipname, is not type 5
ClassBStaticReport(m) ==
    [mmsi |-> m, msg_type |-> 24, shipname |-> "CHARLIE"]

Messages ==
    {PositionReport(TrackedShip, lat) : lat \in Lats}
    \cup {StaticReport(TrackedShip, 1), AidToNavReport(TrackedShip),
          ClassBStaticReport(TrackedShip)}
    \cup {PositionReport(m, 5) : m \in OtherShips \cup OtherMMSI}

\* the value of cur before the first message
NoMessage == [mmsi |-> 0, msg_type |-> 0]

(***************************************************************************)
(* State                                                                   *)
(***************************************************************************)
VARIABLES
    \* VesselManager and VesselRepository
    clock,          \* time.time() / strftime('%s','now'), whole seconds
    zones,          \* VesselManager._zones
    vessels,        \* VesselManager._vessels, as the sequence of its items
    rows,           \* table vessels of the repository: mmsi -> row
    pc,             \* where _update_vessel is suspended: idle (_loop waits for
                    \* a message), lookup (in get_vessel), upsert (in
                    \* upsert_vessel), merge (upsert_vessel has committed)
    cur,            \* the message being handled (the last one when idle)
    ship_prev,      \* local ship_prev of _update_vessel
    ship,           \* local ship of _update_vessel (the row upsert returned)
    outcome,        \* how _update_vessel ended for cur: dropped (return of line
                    \* 118), skipped (line 179), raised (logged by _loop), updated
    events,         \* the publishes made while handling cur, in order
    identifiedEver, \* history: MMSIs for which vessel.identified was published
    staticEver,     \* history: MMSIs whose in-memory record had has_static_data
    firstSeenEver,  \* history: MMSIs for which vessel.first_seen was published
    lastZone,       \* history: for each MMSI with a zone event, the zone its
                    \* latest zone event left it in (NoneVal after zone_exited)
    task,           \* VesselManager._task: none, running (in _loop), cancelled,
                    \* crashed (_loop ended with an exception)
    loops,          \* history: the tasks running VesselManager._loop that
                    \* have not ended
    \* MessageBus
    subs,           \* MessageBus._subs: topic -> list of queues (by subscription)
    queue,          \* the asyncio.Queue of each subscription
    sub_state,      \* each subscription: none (not started), open, closed
    sub_topic,      \* the topic of each started subscription
    next_msg,       \* the next message to publish (messages are numbered)
    published,      \* history: the messages published on each topic, in order
    offered,        \* history: those published while the subscription was registered
    received,       \* history: the messages each subscription yielded, in order
    quiet,          \* history: no publish reached the subscription since its first read
    cleared,        \* history: the subscriptions that were registered when a
                    \* shutdown() cleared the subscriber sets
    \* one render strategy (PeriodicRenderStrategy or QueuedRenderStrategy)
    kind,           \* its class: periodic or queued
    rtask,          \* _task: none, running (in the loop), cancelled, crashed
    rloops,         \* history: the tasks running the strategy's loop that
                    \* have not ended
    rpc,            \* where the loop is suspended: wait (_dirty_event.wait() or
                    \* _event_queue.get()), sleep (asyncio.sleep(remaining)),
                    \* render (inside the render function)
    remaining,      \* what is left of the sleep of _wait_for_interval
    since_last,     \* time.monotonic() - _last_render_time, counted up to
                    \* MinInterval
    dirty,          \* PeriodicRenderStrategy._dirty_event is set
    event_queue,    \* QueuedRenderStrategy._event_queue
    data,           \* local data of _event_loop
    ended,          \* history: how the latest invocation of the render function
                    \* ended: never (none yet), returned, raised, cancelled
    since_end,      \* history: time since it ended, counted up to MinInterval
    unserved,       \* history: request_render was called and no render has
                    \* started since
    calls,          \* history: the request_render calls since the latest start
                    \* of a render, counted up to MaxCalls
    coalesced,      \* history: the value of calls when the latest render started
    requested,      \* history: the data of the requests made, in order
    dropped,        \* history: the data request_render dropped from a full queue
    abandoned,      \* history: the data taken from the queue whose render was
                    \* cancelled by stop() before it started
    request_error,  \* the exception the latest request_render of a
                    \* QueuedRenderStrategy raised to its caller, if any
    rendered,       \* history: the data the render function was invoked with
    \* calls that found nothing to do
    noops,          \* history: which of start() and stop(), of the manager
                    \* and of the strategy, were called and returned at the
                    \* test of _task
    \* ScreenManager
    screens,        \* len(self._screens): the screens are numbered from 0
    current_screen_index,
    active,         \* the screens whose activate() has returned and whose
                    \* deactivate() has not since
    sm_loop,        \* the task running ScreenManager._loop: none, created
                    \* (has not run yet), running (subscribed), crashed
    sm_pc,          \* where _loop is suspended: idle (waits for a command),
                    \* deactivate (inside deactivate() of the current screen)
    commands,       \* the queue of _loop's subscription to screen.command
    action,         \* local action of _loop: the command being handled, or
                    \* the last one handled
    index_before,   \* history: current_screen_index when action was taken
    active_screen,  \* self._active_screen: the set of the number of the
                    \* screen, empty for None
    sm_stop,        \* ScreenManager.stop(): none (not called), deactivate
                    \* (inside deactivate()), returned, or returned after
                    \* it logged an error
    target_index,   \* parameter of _switch_to_screen
    raised,         \* history: what raised during the handling of action:
                    \* none, deactivate, activate
    \* one screen plugin; its _render_strategy is the render strategy above
    skind,          \* which screen: zone, table, map
    stask,          \* its _task, which runs _update_loop: none, created (has
                    \* not run yet), running (subscribed), cancelled
    inbox,          \* the events waiting in the queue of its subscription
    spc,            \* where deactivate() is suspended: idle (not in it),
                    \* stopping (in the await of _render_strategy.stop())
    deactivated,    \* history: deactivate() has returned and activate() was
                    \* not called since
    \* the orchestrator: run() of main.py
    configured,     \* plugins.<category> of the configuration: how many
                    \* plugins each category names (they are numbered from 1)
    failing,        \* of these, the plugins whose creation or start() raises
    renderer_configured,    \* plugins.renderer is present
    mpc,            \* where run() is: load, start, plugins, renderer, wait
                    \* (stop_event.wait()), finally, done
    cat,            \* _init_plugins: the category being initialised
    idx,            \* _init_plugins: the plugin of configured_plugins in turn
    started,        \* history: the components started, in order
    stopped,        \* history: the components stopped, in order
    plugins,        \* locals sources, processors, controllers of run()
    sm_bound,       \* local sm of run() has been assigned
    signalled,      \* stop_event is set
    bus_shut,       \* bus.shutdown() has returned
    exit,           \* how run() ended: none, 0, 1, or the exception raised
    repository_calls, \* history: what the repository was doing (open,
                    \* closing) when the manager began a get_vessel
    \* AISDecoderProcessor
    receive_task,   \* the task of _receive_loop: running, or crashed
    decode_task,    \* the task of _decode_loop: running, or crashed
    raw_queue,      \* the queue of _receive_loop's subscription to ais.raw
    message_queue,  \* self._message_queue: the sentences put and not taken
    raw_sent,       \* number of messages published on ais.raw
    decoded         \* history: the sentences published on ais.decoded

managerVars == <<clock, zones, vessels, rows, pc, cur, ship_prev, ship,
                 outcome, events, identifiedEver, staticEver, firstSeenEver,
                 lastZone, task, loops>>

busVars == <<subs, queue, sub_state, sub_topic, next_msg, published, offered,
             received, quiet, cleared>>

renderVars == <<kind, rtask, rloops, rpc, remaining, since_last, dirty, event_queue,
               data, ended, since_end, unserved, calls, coalesced, requested,
               dropped, abandoned, request_error, rendered>>

callVars == <<noops>>

smVars == <<screens, current_screen_index, active, sm_loop, sm_pc, commands,
            action, index_before, target_index, raised, active_screen,
            sm_stop>>

screenVars == <<skind, stask, inbox, spc, deactivated>>

mainVars == <<configured, failing, renderer_configured, mpc, cat, idx,
              started, stopped, plugins, sm_bound, signalled, bus_shut, exit,
              repository_calls>>

decoderVars == <<receive_task, decode_task, raw_queue, message_queue,
                 raw_sent, decoded>>

vars == <<managerVars, busVars, renderVars, callVars, smVars, screenVars,
          mainVars, decoderVars>>

\* what the actions of the vessel manager leave alone
notManager == <<busVars, renderVars, callVars, smVars, screenVars, mainVars,
      decoderVars>>

\* what the actions of the bus leave alone
notBus == <<managerVars, renderVars, callVars, smVars, screenVars, mainVars,
      decoderVars>>

\* what the actions of a render strategy leave alone
notRender == <<managerVars, busVars, callVars, smVars, screenVars, mainVars,
      decoderVars>>

\* what a call that finds nothing to do leaves alone
notCalls == <<managerVars, busVars, renderVars, smVars, screenVars, mainVars,
      decoderVars>>

\* what the actions of the screen manager leave alone
notScreens == <<managerVars, busVars, renderVars, callVars, screenVars,
                mainVars, decoderVars>>

\* what the actions of a screen plugin leave alone, its render strategy
\* apart
notScreen == <<managerVars, busVars, callVars, smVars, mainVars,
      decoderVars>>

\* what the steps of run() leave alone
notMain == <<managerVars, busVars, renderVars, callVars, smVars, screenVars,
      decoderVars>>

(***************************************************************************)
(* VesselManager._is_message_valid                                         *)
(***************************************************************************)
\* as IsMessageValid, without the test for SAR aircraft
IsMessageValidWithout111(message) ==
    LET mmsi == Str(message["mmsi"])
    IN  IF Len(mmsi) # 9 THEN FALSE ELSE TRUE

IsMessageValid(message) ==
    LET mmsi == Str(message["mmsi"])
    IN  IF Len(mmsi) # 9 THEN FALSE
        ELSE IF SubSeq(mmsi, 1, 3) = <<1, 1, 1>> THEN FALSE
        ELSE TRUE

(***************************************************************************)
(* VesselManager._check_zones / _calculate_distance                        *)
(***************************************************************************)
\* Haversine distance restricted to points of one meridian (lon1 = lon2),
\* where it is EARTH_RADIUS * |lat1 - lat2|; the unit of distance is the
\* length of one degree of latitude.
CalculateDistance(lat1, lon1, lat2, lon2) ==
    IF lat1 >= lat2 THEN lat1 - lat2 ELSE lat2 - lat1

RECURSIVE CheckZonesFrom(_, _, _, _)
CheckZonesFrom(zs, i, ship_lat, ship_lon) ==
    IF i > Len(zs) THEN NoneVal
    ELSE IF CalculateDistance(ship_lat, ship_lon, zs[i].lat, zs[i].lon)
                <= zs[i].radius
         THEN zs[i].name
         ELSE CheckZonesFrom(zs, i + 1, ship_lat, ship_lon)

CheckZones(zs, ship_lat, ship_lon) ==
    IF zs = <<>> THEN NoneVal ELSE CheckZonesFrom(zs, 1, ship_lat, ship_lon)

\* _zones is [] after construction and nothing in the package fills it; it
\* is populated by assigning the attribute.  The model runs with this
\* populated list, so that zone membership changes.  The zones overlap at
\* lat = 1, where the first one wins; lat = 5 is outside both.
ZoneConfig ==
    << [name |-> "harbour", lat |-> 0, lon |-> 0, radius |-> 1],
       [name |-> "bay", lat |-> 2, lon |-> 0, radius |-> 1] >>

(***************************************************************************)
(* VesselRepository                                                        *)
(***************************************************************************)
\* the row written by INSERT ... VALUES (the "excluded" row on conflict)
ExcludedRow(values, now) ==
    [mmsi |-> values.mmsi, imo |-> values.imo, name |-> values.name,
     callsign |-> values.callsign, type |-> values.ship_type,
     bow |-> values.bow, stern |-> values.stern, port |-> values.port,
     starboard |-> values.starboard,
     first_sight |-> now, last_sight |-> now,
     has_static_data |-> values.has_static_data,
     static_data_received |-> IF values.has_static_data = 1 THEN now ELSE NULL]

\* as ConflictRow, with has_static_data taken from the excluded row whenever
\* the static fields are not updated
ConflictRowResetsStatic(old, excluded, allow_static_update) ==
    IF allow_static_update
    THEN [old EXCEPT
            !.last_sight = excluded.last_sight,
            !.imo = excluded.imo, !.name = excluded.name,
            !.callsign = excluded.callsign, !.type = excluded.type,
            !.bow = excluded.bow, !.stern = excluded.stern,
            !.port = excluded.port, !.starboard = excluded.starboard,
            !.has_static_data = 1,
            !.static_data_received =
                IF old.static_data_received # NULL
                THEN old.static_data_received
                ELSE excluded.static_data_received]
    ELSE [old EXCEPT !.last_sight = excluded.last_sight,
                     !.has_static_data = excluded.has_static_data]

\* ON CONFLICT(mmsi) DO UPDATE SET ...
\* as ConflictRow, replacing the whole row by the inserted one
ConflictRowTakesExcluded(old, excluded, allow_static_update) == excluded

ConflictRow(old, excluded, allow_static_update) ==
    IF allow_static_update
    THEN [old EXCEPT
            !.last_sight = excluded.last_sight,
            !.imo = excluded.imo, !.name = excluded.name,
            !.callsign = excluded.callsign, !.type = excluded.type,
            !.bow = excluded.bow, !.stern = excluded.stern,
            !.port = excluded.port, !.starboard = excluded.starboard,
            !.has_static_data = 1,
            !.static_data_received =
                IF old.static_data_received # NULL
                THEN old.static_data_received
                ELSE excluded.static_data_received]
    ELSE [old EXCEPT !.last_sight = excluded.last_sight]

\* the row RETURNING * yields for upsert_vessel(values, allow_static_update)
UpsertRow(tbl, values, allow_static_update, now) ==
    IF values.mmsi \in DOMAIN tbl
    THEN ConflictRow(tbl[values.mmsi], ExcludedRow(values, now),
                     allow_static_update)
    ELSE ExcludedRow(values, now)

\* the table after the commit
PutRow(tbl, row) ==
    [k \in (DOMAIN tbl) \cup {row.mmsi} |-> IF k = row.mmsi THEN row ELSE tbl[k]]

(***************************************************************************)
(* VesselManager._update_vessel                                            *)
(***************************************************************************)
\* values, the upsert payload built from the message
Values(message) ==
    [mmsi |-> Str(message["mmsi"]),
     imo |-> Get(message, "imo", "0"),
     name |-> Get(message, "shipname", "Unknown"),
     callsign |-> Get(message, "callsign", "????"),
     ship_type |-> Get(message, "ship_type", -1),
     bow |-> Get(message, "to_bow", 0),
     stern |-> Get(message, "to_stern", 0),
     port |-> Get(message, "to_port", 0),
     starboard |-> Get(message, "to_starboard", 0),
     has_static_data |-> IF message["msg_type"] = 5 THEN 1 ELSE 0]

key_filter ==
    {"mmsi", "msg_type", "sentences", "callsign", "shipname", "ship_type",
     "to_bow", "to_stern", "to_port", "to_starboard", "imo", "has_static_data"}

DynamicData(message) == Without(message, key_filter)

\* keys of the dict, in order
Keys(vs) == {vs[i].k : i \in 1..Len(vs)}

\* self._vessels[key]
Item(vs, key) == (CHOOSE i \in 1..Len(vs) : vs[i].k = key)

Lookup(vs, key) == vs[Item(vs, key)].v

\* self._vessels[key] = rec: an existing key keeps its place, a new one is last
SetItem(vs, key, rec) ==
    IF key \in Keys(vs)
    THEN [vs EXCEPT ![Item(vs, key)] = [k |-> key, v |-> rec]]
    ELSE Append(vs, [k |-> key, v |-> rec])

\* sorted(items, key=ts, reverse=True): stable, equal ts keep their order
RECURSIVE InsertByTsDesc(_, _)
InsertByTsDesc(sorted, item) ==
    IF sorted = <<>> THEN <<item>>
    ELSE IF Head(sorted).v["ts"] >= item.v["ts"]
         THEN <<Head(sorted)>> \o InsertByTsDesc(Tail(sorted), item)
         ELSE <<item>> \o sorted

RECURSIVE SortedByTsDesc(_)
SortedByTsDesc(items) ==
    IF items = <<>> THEN <<>>
    ELSE InsertByTsDesc(SortedByTsDesc(SubSeq(items, 1, Len(items) - 1)),
                        items[Len(items)])

\* as Trim, never trimming
TrimNever(vs, max_tracked) == vs

\* "Trim if over max"
Trim(vs, max_tracked) ==
    IF Len(vs) > max_tracked
    THEN SubSeq(SortedByTsDesc(vs), 1, max_tracked)
    ELSE vs

\* as WithZone, with the zone reset by a message that has no position
WithZoneReset(row, dynamic_data, zs) ==
    Merge(row, [zone |-> IF "lat" \in DOMAIN dynamic_data
                              /\ "lon" \in DOMAIN dynamic_data
                         THEN CheckZones(zs, dynamic_data["lat"],
                                         dynamic_data["lon"])
                         ELSE NoneVal])

\* ship after "Update current zone"
WithZone(row, dynamic_data, zs) ==
    IF "lat" \in DOMAIN dynamic_data /\ "lon" \in DOMAIN dynamic_data
    THEN Merge(row, [zone |-> CheckZones(zs, dynamic_data["lat"],
                                         dynamic_data["lon"])])
    ELSE row

\* the merged in-memory record
Merged(prev, ship_z, dynamic_data, now) ==
    Merge(Merge(Merge(prev, ship_z), dynamic_data), [ts |-> now])

Event(topic, payload) == [topic |-> topic, payload |-> payload]

\* as ZoneEvents, with zone_entered published for every update inside a zone
ZoneEventsOnEveryUpdate(mmsi, zone_prev, zone_current, rec) ==
    IF zone_current # NoneVal
    THEN << Event("vessel.zone_entered",
                  [mmsi |-> mmsi, zone |-> zone_current, vessel |-> rec]) >>
    ELSE IF zone_prev # NoneVal
    THEN << Event("vessel.zone_exited",
                  [mmsi |-> mmsi, zone |-> zone_prev, vessel |-> rec]) >>
    ELSE << >>

\* "Publish zone events"
ZoneEvents(mmsi, zone_prev, zone_current, rec) ==
    IF zone_current # zone_prev
    THEN IF zone_prev = NoneVal /\ zone_current # NoneVal
         THEN << Event("vessel.zone_entered",
                       [mmsi |-> mmsi, zone |-> zone_current, vessel |-> rec]) >>
         ELSE IF zone_prev # NoneVal /\ zone_current = NoneVal
         THEN << Event("vessel.zone_exited",
                       [mmsi |-> mmsi, zone |-> zone_prev, vessel |-> rec]) >>
         ELSE IF zone_prev # NoneVal /\ zone_current # NoneVal
         THEN << Event("vessel.zone_moved",
                       [mmsi |-> mmsi, from_zone |-> zone_prev,
                        to_zone |-> zone_current, vessel |-> rec]) >>
         ELSE << >>
    ELSE << >>

\* as PublishedAfterUpsert, with vessel.updated published first
PublishedUpdatedFirst(identified, zone_events, updated) ==
    updated \o identified \o zone_events

\* the publishes of _update_vessel after the upsert, in the order of its
\* statements: lines 181-189, 236-273, 279
PublishedAfterUpsert(identified, zone_events, updated) ==
    identified \o zone_events \o updated

\* "Check if static data was just discovered"
IdentifiedEvents(mmsi, has_static_data, prev, row) ==
    IF has_static_data /\ Get(prev, "has_static_data", 0) = 0
    THEN << Event("vessel.identified", [mmsi |-> mmsi, vessel |-> row]) >>
    ELSE << >>

\* "If new vessel, try to load from database first": the publish made for
\* what get_vessel returned (None is the empty dict, "if db_vessel:" being
\* false for both)
AppearedEvents(mmsi, has_static_data, db_vessel) ==
    IF DOMAIN db_vessel # {}
    THEN << Event("vessel.appeared",
                  [mmsi |-> mmsi, vessel |-> db_vessel,
                   known |-> Get(db_vessel, "has_static_data", 0)]) >>
    ELSE << Event("vessel.first_seen",
                  [mmsi |-> mmsi, has_static_data |-> has_static_data]) >>

\* get_vessel(mmsi): the row, or None when there is none or on aiosqlite.Error
GetVessel(tbl, mmsi, fails) ==
    IF ~fails /\ mmsi \in DOMAIN tbl THEN tbl[mmsi] ELSE EmptyDict

\* as TaskRunning, for a start() and a stop() that would not look at _task
TaskRunningNever(t) == FALSE

\* "self._task and not self._task.done()": the test at the head of start()
\* and of stop(), of the manager and of both render strategies
TaskRunning(t) == t = "running"

\* what a call of start() or stop() that returns at the test of _task
\* leaves behind: nothing of the program's state
NothingToDo(call) ==
    /\ noops' = noops \cup {call}
    /\ UNCHANGED notCalls

ManagerInit ==
    /\ clock = 0
    /\ zones = ZoneConfig
    /\ vessels = <<>>
    /\ rows = << >>
    /\ pc = "idle"
    /\ cur = NoMessage
    /\ ship_prev = EmptyDict
    /\ ship = EmptyDict
    /\ outcome = "none"
    /\ events = <<>>
    /\ identifiedEver = {}
    /\ staticEver = {}
    /\ firstSeenEver = {}
    /\ lastZone = EmptyDict
    /\ task = "none"
    /\ loops = 0

\* start(): creates the task that runs _loop, unless one is running
Start ==
    /\ ~TaskRunning(task)
    /\ task' = "running"
    /\ loops' = loops + 1
    /\ UNCHANGED <<clock, zones, vessels, rows, pc, cur, ship_prev, ship,
                   outcome, events, identifiedEver, staticEver, firstSeenEver,
                   lastZone, notManager>>

\* stop(): cancels the task; CancelledError is raised at the await where
\* _loop is suspended (the wait for a message, a repository call of
\* _update_vessel, or sleep(0)) and ends _loop
Stop ==
    /\ TaskRunning(task)
    /\ task' = "cancelled"
    /\ loops' = loops - 1
    /\ pc' = "idle"
    /\ outcome' = IF pc = "idle" THEN outcome ELSE "cancelled"
    /\ UNCHANGED <<clock, zones, vessels, rows, cur, ship_prev, ship, events,
                   identifiedEver, staticEver, firstSeenEver,
                   lastZone, notManager>>

\* start() while the task is running: returns at line 45
StartRunning == TaskRunning(task) /\ NothingToDo("manager.start")

\* stop() while no task is running (none was started, or it was stopped)
StopIdle == ~TaskRunning(task) /\ NothingToDo("manager.stop")

\* as HandlerDone, for a loop that would not await the handler
HandlerDoneAlways == TRUE

\* "await self._update_vessel(msg)": _loop asks the subscription for the
\* next message only when the handling of the last one has returned or raised
HandlerDone == pc = "idle"

\* as LoopAfterException, for a loop without the inner try
LoopAfterExceptionCrashes == "crashed"

\* "except Exception" around the handler: the exception is logged and _loop
\* goes on to sleep(0) and the next message
LoopAfterException == "running"

\* the wall clock advances (between two messages: the clock is read in whole
\* seconds, and the model handles one message within one of them)
Tick ==
    /\ clock < MaxTime
    /\ pc = "idle"
    /\ clock' = clock + 1
    /\ UNCHANGED <<zones, vessels, rows, pc, cur, ship_prev, ship, outcome,
                   events, identifiedEver, staticEver, firstSeenEver,
                   lastZone, task, loops, notManager>>

\* _loop takes the next decoded message; _update_vessel runs up to its
\* first database call, or returns at once for a message not from a ship
Receive(message) ==
    /\ task = "running"
    /\ HandlerDone
    /\ cur' = message
    /\ events' = <<>>
    /\ ship' = EmptyDict
    /\ IF ~IsMessageValid(message)
       THEN /\ pc' = "idle"
            /\ outcome' = "dropped"
            /\ ship_prev' = EmptyDict
       ELSE IF Str(message["mmsi"]) \notin Keys(vessels)
            THEN /\ pc' = "lookup"
                 /\ outcome' = "none"
                 /\ ship_prev' = EmptyDict
            ELSE /\ pc' = "upsert"
                 /\ outcome' = "none"
                 /\ ship_prev' = Lookup(vessels, Str(message["mmsi"]))
    /\ UNCHANGED <<clock, zones, vessels, rows, identifiedEver, staticEver,
                   firstSeenEver, lastZone, task, loops, notManager>>

\* the events of the given topics among evs, in order
OnTopics(evs, topics) == SelectSeq(evs, LAMBDA e : e.topic \in topics)

ZoneTopics ==
    {"vessel.zone_entered", "vessel.zone_exited", "vessel.zone_moved"}

\* the events published by the step, the latest last
NewEvents ==
    IF Len(events') > Len(events)
    THEN SubSeq(events', Len(events) + 1, Len(events'))
    ELSE <<>>

\* the zone a zone event leaves the vessel in
ZoneAfter(e) ==
    IF e.topic = "vessel.zone_entered" THEN e.payload.zone
    ELSE IF e.topic = "vessel.zone_moved" THEN e.payload.to_zone
    ELSE NoneVal

\* the histories of the published events follow the step's publishes
Recorded ==
    /\ firstSeenEver' = firstSeenEver \cup
          {NewEvents[i].payload.mmsi :
              i \in {j \in 1..Len(NewEvents) :
                        NewEvents[j].topic = "vessel.first_seen"}}
    /\ \E zone_events \in {OnTopics(NewEvents, ZoneTopics)} :
          lastZone' =
             IF zone_events = <<>> THEN lastZone
             ELSE LET e == zone_events[Len(zone_events)]
                  IN  Merge(lastZone,
                            [k \in {e.payload.mmsi} |-> ZoneAfter(e)])

\* the histories of the published events are not kept
NotRecorded == UNCHANGED <<firstSeenEver, lastZone>>

\* get_vessel has returned db_vessel; first_seen or appeared is published
AfterGetVessel(db_vessel) ==
    /\ pc = "lookup"
    /\ pc' = "upsert"
    /\ ship_prev' = db_vessel
    /\ events' = events \o AppearedEvents(Str(cur["mmsi"]),
                                          cur["msg_type"] = 5, db_vessel)
    /\ UNCHANGED <<clock, zones, vessels, rows, cur, ship, outcome,
                   identifiedEver, staticEver, task, loops, notManager>>

GetVesselReturns(db_vessel) == AfterGetVessel(db_vessel) /\ NotRecorded

\* get_vessel finds the row, or none
GetVesselDone == GetVesselReturns(GetVessel(rows, Str(cur["mmsi"]), FALSE))

\* get_vessel catches aiosqlite.Error
GetVesselError == GetVesselReturns(GetVessel(rows, Str(cur["mmsi"]), TRUE))

\* GetVesselDone and GetVesselError, with the histories kept
GetVesselDoneRecorded ==
    AfterGetVessel(GetVessel(rows, Str(cur["mmsi"]), FALSE)) /\ Recorded

GetVesselErrorRecorded ==
    AfterGetVessel(GetVessel(rows, Str(cur["mmsi"]), TRUE)) /\ Recorded

\* upsert_vessel commits and returns the row
UpsertVessel ==
    /\ pc = "upsert"
    /\ pc' = "merge"
    /\ \E row \in {UpsertRow(rows, Values(cur), cur["msg_type"] = 5, clock)} :
          /\ rows' = PutRow(rows, row)
          /\ ship' = row
    /\ UNCHANGED <<clock, zones, vessels, cur, ship_prev, outcome, events,
                   identifiedEver, staticEver, firstSeenEver,
                   lastZone, task, loops, notManager>>

\* as Rollback, leaving the uncommitted write in place
RollbackKeepsWrite(committed, working) == working

\* db.rollback(): the table goes back to what the last commit left
Rollback(committed, working) == committed

\* the awaits of upsert_vessel's try block, where aiosqlite.Error can surface
UpsertFailurePoints == {"execute", "fetchone", "commit"}

\* the table inside the open transaction when the call fails at the given
\* point: a failed execute writes nothing, a later failure comes after the
\* statement has written
WorkingTable(tbl, values, allow_static_update, now, at) ==
    IF at = "execute" THEN tbl
    ELSE PutRow(tbl, UpsertRow(tbl, values, allow_static_update, now))

\* as SkipMessage, forgetting the vessel
SkipMessageUntracks(vs, mmsi) == SelectSeq(vs, LAMBDA it : it.k # mmsi)

\* "if ship is None: return": the map is left as it is
SkipMessage(vs, mmsi) == vs

\* upsert_vessel catches aiosqlite.Error raised at the given point: rollback,
\* return None; _update_vessel returns, the message is skipped
UpsertVesselFails(at) ==
    /\ pc = "upsert"
    /\ pc' = "idle"
    /\ outcome' = "skipped"
    /\ rows' = Rollback(rows, WorkingTable(rows, Values(cur),
                                           cur["msg_type"] = 5, clock, at))
    /\ ship' = EmptyDict
    /\ vessels' = SkipMessage(vessels, Str(cur["mmsi"]))
    /\ UNCHANGED <<clock, zones, cur, ship_prev, events, identifiedEver,
                   staticEver, firstSeenEver, lastZone, task, loops,
                   notManager>>

UpsertVesselError == \E at \in UpsertFailurePoints : UpsertVesselFails(at)

\* the rest of _update_vessel, which has no suspension point (publish does
\* not suspend): identified, zone, merge, trim, zone events, updated.
\* self._vessels[mmsi] after the trim raises KeyError when the entry was
\* trimmed; _loop logs the exception and goes on.
\* (The locals are bound by \E over a singleton, which evaluates them once.)
AfterUpsertVessel ==
    /\ pc = "merge"
    /\ pc' = "idle"
    /\ \E mmsi \in {Str(cur["mmsi"])} :
       \E dynamic_data \in {DynamicData(cur)} :
       \E merged \in {Merged(ship_prev, WithZone(ship, dynamic_data, zones),
                             dynamic_data, clock)} :
       \E trimmed \in {Trim(SetItem(vessels, mmsi, merged), MaxTracked)} :
          LET identified == IdentifiedEvents(mmsi, cur["msg_type"] = 5,
                                             ship_prev, ship)
              zone_prev == Get(ship_prev, "zone", NoneVal)
          IN  /\ vessels' = trimmed
              /\ identifiedEver' =
                    IF identified # <<>> THEN identifiedEver \cup {mmsi}
                    ELSE identifiedEver
              /\ staticEver' = staticEver \cup
                    {trimmed[i].k : i \in {j \in 1..Len(trimmed) :
                                        trimmed[j].v["has_static_data"] = 1}}
              /\ IF mmsi \in Keys(trimmed)
                 THEN \E rec \in {Lookup(trimmed, mmsi)} :
                      \E zone_events \in
                            {ZoneEvents(mmsi, zone_prev,
                                        Get(rec, "zone", NoneVal), rec)} :
                        /\ events' = events \o PublishedAfterUpsert(
                              identified, zone_events,
                              << Event("vessel.updated", rec) >>)
                        /\ outcome' = "updated"
                        /\ task' = task
                        /\ loops' = loops
                 ELSE /\ events' = events \o identified
                      /\ outcome' = "raised"
                      /\ task' = LoopAfterException
                      /\ loops' = IF LoopAfterException = "running"
                                   THEN loops ELSE loops - 1
    /\ UNCHANGED <<clock, zones, rows, cur, ship_prev, ship, notManager>>

MergeAndPublish == AfterUpsertVessel /\ NotRecorded

\* MergeAndPublish, with the histories kept
MergeAndPublishRecorded == AfterUpsertVessel /\ Recorded

ManagerNext ==
    \/ Start
    \/ Tick
    \/ \E message \in Messages : Receive(message)
    \/ GetVesselDone
    \/ GetVesselError
    \/ UpsertVessel
    \/ UpsertVesselError
    \/ MergeAndPublish

\* the manager's steps, with the histories of the published events kept
HistoryNext ==
    \/ Start
    \/ Tick
    \/ \E message \in Messages : Receive(message)
    \/ GetVesselDoneRecorded
    \/ GetVesselErrorRecorded
    \/ UpsertVessel
    \/ UpsertVesselError
    \/ MergeAndPublishRecorded

(***************************************************************************)
(* MessageBus                                                              *)
(*                                                                         *)
(* The lock is only held over statements that do not suspend, so it is     *)
(* free whenever a task asks for it and "async with self._lock" never      *)
(* suspends: publish, the registration in subscribe, its cleanup and       *)
(* shutdown each run without interleaving.                                 *)
(***************************************************************************)
Topics == {"ais.raw", "ais.decoded"}
Subscriptions == {"s1", "s2"}

\* q.full()
Full(q) == Len(q) >= QueueMaxSize

\* q.get_nowait(), QueueEmpty passed over
GetNowait(q) == IF q = <<>> THEN q ELSE Tail(q)

\* as PutNowait, putting the message at the head of the queue
PutNowaitAtHead(q, message) == IF Full(q) THEN q ELSE <<message>> \o q

\* q.put_nowait(message), QueueFull passed over
PutNowait(q, message) == IF Full(q) THEN q ELSE Append(q, message)

\* as Deliver, without making room in a full queue: the new message is lost
DeliverDropsNewest(q, message) == PutNowait(q, message)

\* the body of publish's loop for one queue
Deliver(q, message) ==
    PutNowait(IF Full(q) THEN GetNowait(q) ELSE q, message)

\* as Remove, leaving the list as it is
RemoveNothing(list, x) == list

\* list.remove(x), ValueError passed over
Remove(list, x) == SelectSeq(list, LAMBDA y : y # x)

Range(seq) == {seq[i] : i \in 1..Len(seq)}

BusInit ==
    /\ subs = [t \in Topics |-> <<>>]
    /\ queue = [s \in Subscriptions |-> <<>>]
    /\ sub_state = [s \in Subscriptions |-> "none"]
    /\ sub_topic = [s \in Subscriptions |-> "ais.raw"]
    /\ next_msg = 0
    /\ published = [t \in Topics |-> <<>>]
    /\ offered = [s \in Subscriptions |-> <<>>]
    /\ received = [s \in Subscriptions |-> <<>>]
    /\ quiet = [s \in Subscriptions |-> TRUE]
    /\ cleared = {}

\* publish(topic, next_msg)
Publish(topic) ==
    /\ next_msg < MaxPublishes
    /\ next_msg' = next_msg + 1
    /\ published' = [published EXCEPT ![topic] = Append(@, next_msg)]
    /\ LET queues == Range(subs[topic])
       IN  /\ queue' = [s \in Subscriptions |->
                          IF s \in queues THEN Deliver(queue[s], next_msg)
                          ELSE queue[s]]
           /\ offered' = [s \in Subscriptions |->
                          IF s \in queues THEN Append(offered[s], next_msg)
                          ELSE offered[s]]
           /\ quiet' = [s \in Subscriptions |->
                          IF s \in queues /\ received[s] # <<>> THEN FALSE
                          ELSE quiet[s]]
    /\ UNCHANGED <<subs, sub_state, sub_topic, received, cleared, notBus>>

\* the first step of the iterator subscribe(topic): the queue is registered
Register(s, topic) ==
    /\ sub_state[s] = "none"
    /\ sub_state' = [sub_state EXCEPT ![s] = "open"]
    /\ sub_topic' = [sub_topic EXCEPT ![s] = topic]
    /\ subs' = [subs EXCEPT ![topic] = Append(@, s)]
    /\ UNCHANGED <<queue, next_msg, published, offered, received, quiet,
                   cleared>>

Subscribe(s, topic) == Register(s, topic) /\ UNCHANGED notBus

\* msg = await q.get(); yield msg
Read(s) ==
    /\ sub_state[s] = "open"
    /\ queue[s] # <<>>
    /\ received' = [received EXCEPT ![s] = Append(@, Head(queue[s]))]
    /\ queue' = [queue EXCEPT ![s] = Tail(@)]
    /\ UNCHANGED <<subs, sub_state, sub_topic, next_msg, published, offered,
                   quiet, cleared, notBus>>

\* the consumer abandons the iterator: the finally block of subscribe
Close(s) ==
    /\ sub_state[s] = "open"
    /\ sub_state' = [sub_state EXCEPT ![s] = "closed"]
    /\ subs' = [subs EXCEPT ![sub_topic[s]] = Remove(@, s)]
    /\ UNCHANGED <<queue, sub_topic, next_msg, published, offered, received,
                   quiet, cleared, notBus>>

\* shutdown(): self._subs.clear() under the lock, nothing else; the queues
\* are not touched and no consumer is woken or cancelled
Shutdown ==
    /\ subs' = [t \in Topics |-> <<>>]
    /\ cleared' = cleared \cup {s \in Subscriptions : sub_state[s] = "open"}
    /\ UNCHANGED <<queue, sub_state, sub_topic, next_msg, published, offered,
                   received, quiet, notBus>>

BusNext ==
    \/ \E topic \in Topics : Publish(topic)
    \/ \E s \in Subscriptions, topic \in Topics : Subscribe(s, topic)
    \/ \E s \in Subscriptions : Read(s)
    \/ \E s \in Subscriptions : Close(s)
    \/ Shutdown

(***************************************************************************)
(* VesselManager.start() on the bus                                        *)
(*                                                                         *)
(* create_task schedules _loop and returns; the task runs for the first    *)
(* time when the caller of start() next yields to the event loop, and      *)
(* only then does "async for msg in self._bus.subscribe(...)" register     *)
(* the queue.                                                              *)
(***************************************************************************)
\* in_topic, and the subscription of the manager's _loop
InTopic == "ais.decoded"
ManagerSubscription == "s1"
\* the subscription of another consumer of the topic
OtherSubscription == "s2"

\* start(): "self._task = asyncio.create_task(self._loop())", and the return
StartCreatesTask ==
    /\ task = "none"
    /\ task' = "created"
    /\ loops' = loops + 1
    /\ UNCHANGED <<clock, zones, vessels, rows, pc, cur, ship_prev, ship,
                   outcome, events, identifiedEver, staticEver, firstSeenEver,
                   lastZone, notManager>>

\* the task runs for the first time: _loop up to the first q.get() of
\* subscribe
LoopSubscribes ==
    /\ task = "created"
    /\ task' = "running"
    /\ Register(ManagerSubscription, InTopic)
    /\ UNCHANGED <<clock, zones, vessels, rows, pc, cur, ship_prev, ship,
                   outcome, events, identifiedEver, staticEver, firstSeenEver,
                   lastZone, loops, renderVars, callVars, smVars, screenVars,
                   mainVars, decoderVars>>

\* a publish on the input topic by a task that runs after start() returned
PublishAfterStart ==
    /\ task # "none"
    /\ Publish(InTopic)

\* _loop takes the next message from its subscription
LoopReads ==
    /\ task = "running"
    /\ Read(ManagerSubscription)

StartupNext ==
    \/ StartCreatesTask
    \/ LoopSubscribes
    \/ PublishAfterStart
    \/ LoopReads
    \/ Subscribe(OtherSubscription, InTopic)
    \/ Read(OtherSubscription)

(***************************************************************************)
(* PeriodicRenderStrategy and QueuedRenderStrategy                         *)
(*                                                                         *)
(* start, stop, _wait_for_interval and _initiate_render are the same in    *)
(* the two classes. Time is kept as the differences the code computes      *)
(* (time since _last_render_time, what is left of a sleep), each counted   *)
(* up to MinInterval, beyond which the code does not tell them apart.      *)
(***************************************************************************)
Kinds == {"periodic", "queued"}

\* no data: the None that request_render and _initiate_render default to
NoData == 0

Min(a, b) == IF a < b THEN a ELSE b

\* the state of a strategy after __init__; the monotonic clock may be any
\* distance from the initial _last_render_time of 0.0
RenderConstructed(k, time_since_last) ==
    /\ kind = k
    /\ rtask = "none"
    /\ rloops = 0
    /\ rpc = "wait"
    /\ remaining = 0
    /\ since_last = time_since_last
    /\ dirty = FALSE
    /\ event_queue = <<>>
    /\ data = NoData
    /\ ended = "never"
    /\ since_end = 0
    /\ unserved = FALSE
    /\ calls = 0
    /\ coalesced = 0
    /\ requested = <<>>
    /\ dropped = {}
    /\ abandoned = {}
    /\ request_error = NoneVal
    /\ rendered = <<>>

RenderInit ==
    \E k \in Kinds, time_since_last \in 0..MinInterval :
        RenderConstructed(k, time_since_last)

\* time passes: one unit of the monotonic clock
RenderTick ==
    /\ \/ remaining > 0
       \/ since_last < MinInterval
       \/ since_end < MinInterval
    /\ remaining' = IF remaining > 0 THEN remaining - 1 ELSE 0
    /\ since_last' = Min(since_last + 1, MinInterval)
    /\ since_end' = Min(since_end + 1, MinInterval)
    /\ UNCHANGED <<kind, rtask, rloops, rpc, dirty, event_queue, data, ended,
                   unserved, calls, coalesced, requested, dropped, abandoned,
                   request_error,
                   rendered, notRender>>

\* "self._task = asyncio.create_task(...)": the new task runs the loop from
\* its first wait
CreateTask ==
    /\ rtask' = "running"
    /\ rloops' = rloops + 1
    /\ rpc' = "wait"
    /\ UNCHANGED <<kind, remaining, since_last, dirty, event_queue, data,
                   ended, since_end, unserved, calls, coalesced, requested,
                   dropped, abandoned, request_error, rendered>>

\* start(): creates the task that runs the loop, unless one is running
StrategyStart ==
    /\ ~TaskRunning(rtask)
    /\ CreateTask
    /\ UNCHANGED notRender

\* start() while the task is running
StrategyStartRunning == TaskRunning(rtask) /\ NothingToDo("strategy.start")

\* stop(): cancels the task at the await where the loop is suspended. A
\* render in progress ends there; a request taken from the queue that was
\* waiting for the interval is not rendered.
CancelTask ==
    /\ rtask' = "cancelled"
    /\ rloops' = rloops - 1
    /\ rpc' = "wait"
    /\ remaining' = 0
    /\ data' = NoData
    /\ ended' = IF rpc = "render" THEN "cancelled" ELSE ended
    /\ since_end' = IF rpc = "render" THEN 0 ELSE since_end
    /\ abandoned' = IF rpc = "sleep" /\ kind = "queued"
                    THEN abandoned \cup {data} ELSE abandoned
    /\ UNCHANGED <<kind, since_last, dirty, event_queue, unserved, calls,
                   coalesced, requested, dropped, request_error, rendered>>

\* stop(): cancels the running task and waits for it to end
StrategyStop ==
    /\ TaskRunning(rtask)
    /\ CancelTask
    /\ UNCHANGED notRender

\* stop() while no task is running
StrategyStopIdle == ~TaskRunning(rtask) /\ NothingToDo("strategy.stop")

\* as ClearDirty, for a loop that leaves the event set
ClearDirtyNever(d) == d

\* "self._dirty_event.clear()" just before the render
ClearDirty(d) == FALSE

\* as DirtyAfterRender, for a loop that clears the event after the render
DirtyClearedAfterRender(d) == FALSE

\* nothing touches _dirty_event when the render function has ended
DirtyAfterRender(d) == d

\* as StrategyAfterException, for a loop without "except Exception"
StrategyAfterExceptionCrashes == "crashed"

\* "except Exception": the exception is logged, the loop goes on
StrategyAfterException == "running"

\* _wait_for_interval followed by the start of _initiate_render, from the
\* point where the loop has a request to render (d is the request's data):
\* it sleeps when less than min_interval has passed since _last_render_time,
\* otherwise the render function is entered without suspending
WaitForInterval(d) ==
    IF since_last < MinInterval
    THEN /\ rpc' = "sleep"
         /\ remaining' = MinInterval - since_last
         /\ UNCHANGED <<dirty, ended, since_end, unserved, calls, coalesced,
                        rendered>>
    ELSE /\ rpc' = "render"
         /\ remaining' = 0
         /\ dirty' = ClearDirty(dirty)
         /\ unserved' = FALSE
         /\ calls' = 0
         /\ coalesced' = calls
         /\ rendered' = IF kind = "queued" THEN Append(rendered, d)
                        ELSE rendered
         /\ UNCHANGED <<ended, since_end>>

\* "self._dirty_event.set()"
SetDirty ==
    /\ dirty' = TRUE
    /\ unserved' = TRUE
    /\ calls' = Min(calls + 1, MaxCalls)
    /\ UNCHANGED <<kind, rtask, rloops, rpc, remaining, since_last,
                   event_queue, data, ended, since_end, coalesced, requested,
                   dropped, abandoned, request_error, rendered>>

\* PeriodicRenderStrategy.request_render()
PeriodicRequestRender ==
    /\ kind = "periodic"
    /\ SetDirty
    /\ UNCHANGED notRender

\* _state_loop: _dirty_event.wait() returns
PeriodicWake ==
    /\ kind = "periodic"
    /\ rtask = "running"
    /\ rpc = "wait"
    /\ dirty
    /\ WaitForInterval(NoData)
    /\ UNCHANGED <<kind, rtask, rloops, since_last, event_queue, data, requested,
                   dropped, abandoned, request_error, notRender>>

\* as EventQueueAfterRequest, refusing the new request when the queue is full
EventQueueKeepsOldest(q, d) ==
    IF Len(q) >= EventQueueMaxSize THEN q ELSE Append(q, d)

\* the queue after request_render(d): get_nowait() on a full queue, then
\* put_nowait(d)
EventQueueAfterRequest(q, d) ==
    Append(IF Len(q) >= EventQueueMaxSize THEN Tail(q) ELSE q, d)

\* the value of asyncio.Queue.put_nowait(item), which is not a coroutine
PutNowaitValue == NoneVal

\* "await value": awaiting a value that is not awaitable raises TypeError
AwaitError(value) == IF value = NoneVal THEN "TypeError" ELSE NoneVal

\* QueuedRenderStrategy.request_render(data): the oldest pending request is
\* dropped from a full queue, data is put at the tail by put_nowait, whose
\* value is then awaited inside "try ... except asyncio.QueueFull", which
\* lets any other exception through to the caller
QueuedRequestRender ==
    /\ kind = "queued"
    /\ Len(requested) < MaxRequests
    /\ \E d \in {Len(requested) + 1} :
       \E q \in {EventQueueAfterRequest(event_queue, d)} :
          /\ requested' = Append(requested, d)
          /\ event_queue' = q
          /\ dropped' = dropped \cup ((Range(event_queue) \cup {d}) \ Range(q))
          /\ request_error' = AwaitError(PutNowaitValue)
    /\ UNCHANGED <<kind, rtask, rloops, rpc, remaining, since_last, dirty, data,
                   ended, since_end, unserved, calls, coalesced, abandoned,
                   rendered, notRender>>

\* _event_loop: _event_queue.get() returns the oldest pending request
QueuedGet ==
    /\ kind = "queued"
    /\ rtask = "running"
    /\ rpc = "wait"
    /\ event_queue # <<>>
    /\ data' = Head(event_queue)
    /\ event_queue' = Tail(event_queue)
    /\ WaitForInterval(Head(event_queue))
    /\ UNCHANGED <<kind, rtask, rloops, since_last, requested, dropped, abandoned,
                   request_error,
                   notRender>>

\* asyncio.sleep(remaining) returns; the render function is entered
SleepDone ==
    /\ rtask = "running"
    /\ rpc = "sleep"
    /\ remaining = 0
    /\ rpc' = "render"
    /\ dirty' = ClearDirty(dirty)
    /\ unserved' = FALSE
    /\ calls' = 0
    /\ coalesced' = calls
    /\ rendered' = IF kind = "queued" THEN Append(rendered, data) ELSE rendered
    /\ UNCHANGED <<kind, rtask, rloops, remaining, since_last, event_queue, data,
                   ended, since_end, requested, dropped, abandoned,
                   request_error,
                   notRender>>

\* the render function returns; _last_render_time = time.monotonic()
RenderReturns ==
    /\ rtask = "running"
    /\ rpc = "render"
    /\ rpc' = "wait"
    /\ since_last' = 0
    /\ ended' = "returned"
    /\ since_end' = 0
    /\ dirty' = DirtyAfterRender(dirty)
    /\ data' = NoData
    /\ UNCHANGED <<kind, rtask, rloops, remaining, event_queue, unserved, calls,
                   coalesced, requested, dropped, abandoned,
                   request_error, rendered,
                   notRender>>

\* the render function raises: _last_render_time is not assigned, the loop
\* logs the exception and goes round
RenderRaises ==
    /\ rtask = "running"
    /\ rpc = "render"
    /\ rpc' = "wait"
    /\ rtask' = StrategyAfterException
    /\ rloops' = IF StrategyAfterException = "running"
                  THEN rloops ELSE rloops - 1
    /\ ended' = "raised"
    /\ since_end' = 0
    /\ dirty' = DirtyAfterRender(dirty)
    /\ data' = NoData
    /\ UNCHANGED <<kind, remaining, since_last, event_queue, unserved, calls,
                   coalesced, requested, dropped, abandoned,
                   request_error, rendered,
                   notRender>>

\* the steps of the strategy's background loop
StrategyLoop ==
    \/ PeriodicWake
    \/ QueuedGet
    \/ SleepDone
    \/ RenderReturns
    \/ RenderRaises

RenderNext ==
    \/ RenderTick
    \/ StrategyStart
    \/ StrategyStop
    \/ PeriodicRequestRender
    \/ QueuedRequestRender
    \/ PeriodicWake
    \/ QueuedGet
    \/ SleepDone
    \/ RenderReturns
    \/ RenderRaises

(***************************************************************************)
(* ScreenManager                                                           *)
(*                                                                         *)
(* activate() of the three screens does not suspend (the strategy's        *)
(* start() and create_task do not), so start() and the second half of a    *)
(* switch each run in one step. deactivate() awaits the tasks it cancels,  *)
(* so a switch is suspended inside it. What a screen's activate() and      *)
(* deactivate() may do is the ScreenPlugin interface: return, or raise.    *)
(***************************************************************************)
MaxScreens == 3

\* the commands waiting in the subscription's queue, at most
MaxPending == 2

Actions == {"next", "previous", "refresh"}

NoAction == "<none>"

\* "(self._current_screen_index + 1) % len(self._screens)"
NextIndex(i, n) == (i + 1) % n

\* "(self._current_screen_index - 1) % len(self._screens)"
PreviousIndex(i, n) == (i - 1) % n

\* __init__
SmInit ==
    /\ screens = 0
    /\ current_screen_index = 0
    /\ active = {}
    /\ sm_loop = "none"
    /\ sm_pc = "idle"
    /\ commands = <<>>
    /\ action = NoAction
    /\ index_before = 0
    /\ target_index = 0
    /\ raised = "none"
    /\ active_screen = {}
    /\ sm_stop = "none"

\* start(), where n of the configured screens could be created: creates
\* the task of _loop and activates the first screen, if there is one
SmStart(n) ==
    /\ sm_loop = "none"
    /\ screens' = n
    /\ sm_loop' = "created"
    /\ active' = IF n > 0 THEN {current_screen_index} ELSE {}
    /\ active_screen' = IF n > 0 THEN {current_screen_index} ELSE {}
    /\ UNCHANGED <<current_screen_index, sm_pc, commands, action,
                   index_before, target_index, raised, sm_stop, notScreens>>

\* the task of _loop runs for the first time: bus.subscribe registers its
\* queue
SmSubscribe ==
    /\ sm_loop = "created"
    /\ sm_loop' = "running"
    /\ UNCHANGED <<screens, current_screen_index, active, sm_pc, commands,
                   action, index_before, target_index, raised,
                   active_screen, sm_stop,
                   notScreens>>

\* a controller publishes {"action": a} on screen.command; it reaches the
\* queue of _loop if that is registered
SmPublish(a) ==
    /\ Len(commands) < MaxPending
    /\ commands' = IF sm_loop = "running" THEN Append(commands, a)
                    ELSE commands
    /\ UNCHANGED <<screens, current_screen_index, active, sm_loop, sm_pc,
                   action, index_before, target_index, raised,
                   active_screen, sm_stop,
                   notScreens>>

\* _loop takes the next command: _next_screen / _previous_screen up to the
\* call of deactivate() in _switch_to_screen, or nothing for one screen or
\* less and for another action
SmTake ==
    /\ sm_loop = "running"
    /\ sm_pc = "idle"
    /\ commands # <<>>
    /\ commands' = Tail(commands)
    /\ action' = Head(commands)
    /\ index_before' = current_screen_index
    /\ raised' = "none"
    /\ IF Head(commands) \in {"next", "previous"} /\ screens > 1
       THEN /\ target_index' =
                  IF Head(commands) = "next"
                  THEN NextIndex(current_screen_index, screens)
                  ELSE PreviousIndex(current_screen_index, screens)
            /\ sm_pc' = "deactivate"
       ELSE UNCHANGED <<target_index, sm_pc>>
    /\ UNCHANGED <<screens, current_screen_index, active, sm_loop,
                   active_screen, sm_stop, notScreens>>

\* deactivate() returns: the index moves and the target screen is activated
SmSwitch ==
    /\ sm_pc = "deactivate"
    /\ sm_pc' = "idle"
    /\ current_screen_index' = target_index
    /\ active' = (active \ {current_screen_index}) \cup {target_index}
    /\ UNCHANGED <<screens, sm_loop, commands, action, index_before,
                   target_index, raised, active_screen, sm_stop,
                   notScreens>>

\* deactivate() raises, having stopped the screen or not: nothing catches
\* the exception in _switch_to_screen, _next_screen, _previous_screen or
\* _loop, so the task of _loop ends with it
SmDeactivateRaises(screen_stopped) ==
    /\ sm_pc = "deactivate"
    /\ sm_pc' = "idle"
    /\ sm_loop' = "crashed"
    /\ raised' = "deactivate"
    /\ active' = IF screen_stopped THEN active \ {current_screen_index}
                  ELSE active
    /\ UNCHANGED <<screens, current_screen_index, commands, action,
                   index_before, target_index, active_screen, sm_stop,
                   notScreens>>

\* deactivate() returns and activate() of the target raises: the task of
\* _loop ends in the same way, the index having moved
SmActivateRaises ==
    /\ sm_pc = "deactivate"
    /\ sm_pc' = "idle"
    /\ sm_loop' = "crashed"
    /\ raised' = "activate"
    /\ current_screen_index' = target_index
    /\ active' = active \ {current_screen_index}
    /\ UNCHANGED <<screens, commands, action, index_before, target_index,
                   active_screen, sm_stop, notScreens>>

\* stop() is called: "if self._active_screen:" and the call of deactivate()
\* of that screen, the one start() activated
SmStopCalled ==
    /\ sm_loop # "none"
    /\ sm_stop = "none"
    /\ sm_stop' = IF active_screen # {} THEN "deactivate" ELSE "returned"
    /\ UNCHANGED <<screens, current_screen_index, active, sm_loop, sm_pc,
                   commands, action, index_before, target_index, raised,
                   active_screen, notScreens>>

\* deactivate() of self._active_screen returns, or raises (having stopped
\* the screen or not) and the exception is logged; stop() returns. The task
\* of _loop is referred to by nothing and is left as it is.
SmStopReturns(deactivate_raised, screen_stopped) ==
    /\ sm_stop = "deactivate"
    /\ sm_stop' = IF deactivate_raised THEN "returned after an error"
                   ELSE "returned"
    /\ active' = IF screen_stopped THEN active \ active_screen ELSE active
    /\ UNCHANGED <<screens, current_screen_index, sm_loop, sm_pc, commands,
                   action, index_before, target_index, raised, active_screen,
                   notScreens>>

ScreensNext ==
    \/ \E n \in 0..MaxScreens : SmStart(n)
    \/ SmSubscribe
    \/ \E a \in Actions : SmPublish(a)
    \/ SmTake
    \/ SmSwitch
    \/ \E screen_stopped \in BOOLEAN : SmDeactivateRaises(screen_stopped)
    \/ SmActivateRaises

\* the screen manager with its stop()
ScreensStopNext ==
    \/ ScreensNext
    \/ SmStopCalled
    \/ \E deactivate_raised, screen_stopped \in BOOLEAN :
          /\ ~deactivate_raised => screen_stopped
          /\ SmStopReturns(deactivate_raised, screen_stopped)

(***************************************************************************)
(* The screen plugins: ZoneScreen, TableScreen, MapScreen                  *)
(*                                                                         *)
(* Each owns a PeriodicRenderStrategy and a task running _update_loop,     *)
(* which asks for a render on the events of its topic. activate() does     *)
(* not suspend. A task that is cancelled while it waits in q.get() takes   *)
(* nothing more from its queue.                                            *)
(***************************************************************************)
ScreenKinds == {"zone", "table", "map"}

\* the events waiting in the queue of the update loop, at most
MaxInbox == 2

\* "self._task and not self._task.done()" for the task of _update_loop
UpdateTaskRunning(t) == t \in {"created", "running"}

\* __init__
ScreenConstructed(k) ==
    /\ skind = k
    /\ stask = "none"
    /\ inbox = 0
    /\ spc = "idle"
    /\ deactivated = FALSE

ScreenInit == \E k \in ScreenKinds : ScreenConstructed(k)

\* activate(): returns when the update task is running; otherwise starts
\* the render strategy (its start() does nothing when its task is running)
\* and creates the update task
Activate ==
    /\ spc = "idle"
    /\ deactivated' = FALSE
    /\ IF UpdateTaskRunning(stask)
       THEN UNCHANGED <<stask, renderVars>>
       ELSE /\ stask' = "created"
            /\ IF TaskRunning(rtask) THEN UNCHANGED renderVars
               ELSE CreateTask
    /\ UNCHANGED <<skind, inbox, spc, notScreen>>

\* "self._task.cancel()" and the await of the task: _update_loop ends at
\* its q.get() and its subscription's queue is dropped; deactivate()
\* returns
CancelUpdateTask ==
    /\ stask' = "cancelled"
    /\ inbox' = 0
    /\ spc' = "idle"
    /\ deactivated' = TRUE

\* ZoneScreen.deactivate() calls self._render_strategy.stop() without
\* awaiting it: the coroutine object is dropped and stop() never runs
StopStrategyNotAwaited == UNCHANGED renderVars

\* deactivate(), up to its first suspension. It does nothing when the
\* update task is not running. TableScreen and MapScreen await the
\* strategy's stop(), which suspends in the await of the cancelled task.
Deactivate ==
    /\ spc = "idle"
    /\ IF ~UpdateTaskRunning(stask)
       THEN /\ deactivated' = TRUE
            /\ UNCHANGED <<stask, inbox, spc, renderVars>>
       ELSE IF skind = "zone"
       THEN /\ StopStrategyNotAwaited
            /\ CancelUpdateTask
       ELSE IF TaskRunning(rtask)
       THEN /\ CancelTask
            /\ spc' = "stopping"
            /\ UNCHANGED <<stask, inbox, deactivated>>
       ELSE /\ UNCHANGED renderVars
            /\ CancelUpdateTask
    /\ UNCHANGED <<skind, notScreen>>

\* TableScreen / MapScreen: the strategy's stop() has returned; the update
\* task is cancelled and awaited
DeactivateReturns ==
    /\ spc = "stopping"
    /\ CancelUpdateTask
    /\ UNCHANGED <<skind, renderVars, notScreen>>

\* the update task runs for the first time: bus.subscribe registers its
\* queue
UpdateSubscribe ==
    /\ stask = "created"
    /\ stask' = "running"
    /\ UNCHANGED <<skind, inbox, spc, deactivated, renderVars, notScreen>>

\* an event is published on the screen's topic; it reaches the queue of
\* the update loop if that is registered
UpdatePublish ==
    /\ inbox < MaxInbox
    /\ inbox' = IF stask = "running" THEN inbox + 1 ELSE inbox
    /\ UNCHANGED <<skind, stask, spc, deactivated, renderVars, notScreen>>

\* _update_loop takes an event and awaits request_render(); ZoneScreen
\* does so only for an event whose vessel has an MMSI and a name
UpdateLoop(valid) ==
    /\ stask = "running"
    /\ inbox > 0
    /\ inbox' = inbox - 1
    /\ IF skind = "zone" /\ ~valid THEN UNCHANGED renderVars ELSE SetDirty
    /\ UNCHANGED <<skind, stask, spc, deactivated, notScreen>>

ScreenNext ==
    \/ Activate
    \/ Deactivate
    \/ DeactivateReturns
    \/ UpdateSubscribe
    \/ UpdatePublish
    \/ \E valid \in BOOLEAN : UpdateLoop(valid)
    \/ RenderTick
    \/ PeriodicWake
    \/ SleepDone
    \/ RenderReturns
    \/ RenderRaises

(***************************************************************************)
(* The orchestrator: run() and _init_plugins of main.py                    *)
(*                                                                         *)
(* A component is a pair: the core components are <<name, 0>>, the plugin  *)
(* i of a category is <<category, i>>.                                     *)
(***************************************************************************)
\* the plugins a category of the configuration names, at most
MaxPlugins == 2

\* the categories _init_plugins is called for, in the order of the calls
Categories == <<"sources", "processors", "controllers">>

Admin == <<"admin", 0>>
Repository == <<"repository", 0>>
Manager == <<"manager", 0>>
ScreenCoordinator == <<"screens", 0>>

\* the parameters of ScreenManager.__init__, none of which has a default
ScreenManagerParameters ==
    {"bus", "pm", "renderer", "vm", "cm", "asset_manager"}

\* the arguments of "ScreenManager(bus, pm, renderer, vm, cm=config_manager)"
ScreenManagerArguments == {"bus", "pm", "renderer", "vm", "cm"}

\* run() before its first statement, for a configuration
MainConstructed(conf, fail, renderer) ==
    /\ configured = conf
    /\ failing = fail
    /\ renderer_configured = renderer
    /\ mpc = "load"
    /\ cat = 1
    /\ idx = 1
    /\ started = <<>>
    /\ stopped = <<>>
    /\ plugins = [c \in {"sources", "processors", "controllers"} |-> <<>>]
    /\ sm_bound = FALSE
    /\ signalled = FALSE
    /\ bus_shut = FALSE
    /\ exit = "none"
    /\ repository_calls = {}

\* plugins.sources, plugins.processors and plugins.controllers
Configurations ==
    [{"sources", "processors", "controllers"} -> 0..MaxPlugins]

\* the plugins a configuration names
ConfiguredPlugins(conf) ==
    {p \in (DOMAIN conf) \X (1..MaxPlugins) : p[2] <= conf[p[1]]}

MainInit ==
    \E conf \in Configurations, renderer \in BOOLEAN :
        \E fail \in SUBSET ConfiguredPlugins(conf) :
            MainConstructed(conf, fail, renderer)

\* config_manager.load() raises: run() returns 1
RunLoadFails ==
    /\ mpc = "load"
    /\ mpc' = "done"
    /\ exit' = "1"
    /\ UNCHANGED <<configured, failing, renderer_configured, cat, idx,
                   started, stopped, plugins, sm_bound, signalled, bus_shut,
                   repository_calls, notMain>>

\* config_manager.load() returns; the task of the admin server is created,
\* the repository and the manager are started
RunStart ==
    /\ mpc = "load"
    /\ mpc' = "plugins"
    /\ started' = started \o <<Admin, Repository, Manager>>
    /\ UNCHANGED <<configured, failing, renderer_configured, cat, idx,
                   stopped, plugins, sm_bound, signalled, bus_shut, exit,
                   repository_calls, notMain>>

\* as AfterFailure, for a loop that would give up the category at the
\* first plugin that raises
AfterFailureGivesUp(i, n) == n + 1

\* "except Exception": the loop of _init_plugins goes on with the plugin
\* after the one that raised
AfterFailure(i, n) == i + 1

\* _init_plugins: the plugin in turn is created and started, and appended
\* to the list
PluginStarts ==
    /\ mpc = "plugins"
    /\ idx <= configured[Categories[cat]]
    /\ <<Categories[cat], idx>> \notin failing
    /\ plugins' = [plugins EXCEPT
                      ![Categories[cat]] = Append(@, <<Categories[cat], idx>>)]
    /\ started' = Append(started, <<Categories[cat], idx>>)
    /\ idx' = idx + 1
    /\ UNCHANGED <<configured, failing, renderer_configured, mpc, cat,
                   stopped, sm_bound, signalled, bus_shut, exit,
                   repository_calls, notMain>>

\* _init_plugins: pm.create or plugin.start() raises; the exception is
\* logged
PluginFails ==
    /\ mpc = "plugins"
    /\ idx <= configured[Categories[cat]]
    /\ <<Categories[cat], idx>> \in failing
    /\ idx' = AfterFailure(idx, configured[Categories[cat]])
    /\ UNCHANGED <<configured, failing, renderer_configured, mpc, cat,
                   started, stopped, plugins, sm_bound, signalled, bus_shut,
                   exit,
                   repository_calls, notMain>>

\* _init_plugins returns its list; run() goes on with the next category,
\* or with the renderer
PluginsDone ==
    /\ mpc = "plugins"
    /\ idx > configured[Categories[cat]]
    /\ idx' = 1
    /\ IF cat < Len(Categories)
       THEN cat' = cat + 1 /\ mpc' = mpc
       ELSE cat' = cat /\ mpc' = "renderer"
    /\ UNCHANGED <<configured, failing, renderer_configured, started,
                   stopped, plugins, sm_bound, signalled, bus_shut, exit,
                   repository_calls, notMain>>

\* lines 213-228. With a renderer the ScreenManager is constructed; a
\* call that leaves out a parameter without default raises TypeError,
\* outside any try statement, so run() ends with it. Without a renderer
\* sm is not assigned.
RunRenderer ==
    /\ mpc = "renderer"
    /\ IF ~renderer_configured
       THEN /\ mpc' = "wait"
            /\ UNCHANGED <<started, sm_bound, exit>>
       ELSE IF ScreenManagerParameters \subseteq ScreenManagerArguments
       THEN /\ mpc' = "wait"
            /\ sm_bound' = TRUE
            /\ started' = Append(started, ScreenCoordinator)
            /\ exit' = exit
       ELSE /\ mpc' = "done"
            /\ exit' = "TypeError"
            /\ UNCHANGED <<started, sm_bound>>
    /\ UNCHANGED <<configured, failing, renderer_configured, cat, idx,
                   stopped, plugins, signalled, bus_shut,
                   repository_calls, notMain>>

\* SIGINT or SIGTERM: stop_event.set(); stop_event.wait() returns and the
\* finally block is entered
Signal ==
    /\ mpc = "wait"
    /\ signalled' = TRUE
    /\ mpc' = "finally"
    /\ UNCHANGED <<configured, failing, renderer_configured, cat, idx,
                   started, stopped, plugins, sm_bound, bus_shut, exit,
                   repository_calls, notMain>>

\* what the finally block stops before the screen manager, in its order:
\* lines 243-273
StopSequence ==
    <<Repository, Manager, Admin>> \o plugins["sources"]
        \o plugins["processors"] \o plugins["controllers"]

\* the next stop() of the finally block (an exception of a plugin's stop()
\* is logged)
RunStop ==
    /\ mpc = "finally"
    /\ Len(stopped) < Len(StopSequence)
    /\ stopped' = Append(stopped, StopSequence[Len(stopped) + 1])
    /\ UNCHANGED <<configured, failing, renderer_configured, mpc, cat, idx,
                   started, plugins, sm_bound, signalled, bus_shut, exit,
                   repository_calls, notMain>>

\* lines 275-279: "await sm.stop()", which raises UnboundLocalError when
\* sm was never assigned; then bus.shutdown() and return 0
RunFinish ==
    /\ mpc = "finally"
    /\ Len(stopped) = Len(StopSequence)
    /\ mpc' = "done"
    /\ IF sm_bound
       THEN /\ stopped' = Append(stopped, ScreenCoordinator)
            /\ bus_shut' = TRUE
            /\ exit' = "0"
       ELSE /\ exit' = "UnboundLocalError"
            /\ UNCHANGED <<stopped, bus_shut>>
    /\ UNCHANGED <<configured, failing, renderer_configured, cat, idx,
                   started, plugins, sm_bound, signalled,
                   repository_calls, notMain>>

\* the task of the manager's _loop, created by vm.start() and cancelled by
\* vm.stop(), takes a message while run() is suspended and begins
\* _update_vessel with get_vessel. run() is suspended in _init_plugins, in
\* sm.start(), in stop_event.wait() and, the finally block entered, in
\* "await vessel_repo.stop()" (inside "await self._db_conn.close()"); when
\* that has returned, vm.stop() is called with no suspension in between.
ManagerCallsRepository ==
    /\ mpc # "done"
    /\ Manager \in Range(started)
    /\ Repository \notin Range(stopped)
    /\ repository_calls' = repository_calls
          \cup {IF mpc = "finally" THEN "closing" ELSE "open"}
    /\ UNCHANGED <<configured, failing, renderer_configured, mpc, cat, idx,
                   started, stopped, plugins, sm_bound, signalled, bus_shut,
                   exit, notMain>>

MainNext ==
    \/ RunLoadFails
    \/ RunStart
    \/ PluginStarts
    \/ PluginFails
    \/ PluginsDone
    \/ RunRenderer
    \/ Signal
    \/ RunStop
    \/ RunFinish

(***************************************************************************)
(* AISDecoderProcessor                                                     *)
(*                                                                         *)
(* _receive_loop hands each message of ais.raw to NMEAQueue.put_line,      *)
(* _decode_loop takes the assembled sentences, decodes and publishes       *)
(* them. Of pyais the model keeps this much: put_line queues a sentence    *)
(* and passes over a line that is not a sentence; decode() raises for a    *)
(* sentence whose payload cannot be decoded. The messages are str, as the  *)
(* serial sources publish them; a message is a record of its number and    *)
(* its kind.                                                               *)
(***************************************************************************)
\* number of messages published on ais.raw
MaxRaw == 3

\* a sentence that decodes; a sentence whose decode() raises; a line that
\* is not an NMEA sentence; a str that UTF-8 cannot encode (one holding a
\* lone surrogate)
RawKinds == {"valid", "undecodable", "garbled", "unencodable"}

\* msg.encode("utf-8") raises UnicodeEncodeError
EncodeRaises(msg) == msg.kind = "unencodable"

\* self._message_queue after put_line(msg) has returned
PutLine(q, msg) ==
    IF msg.kind \in {"valid", "undecodable"} THEN Append(q, msg) ELSE q

\* __init__ and start(), both tasks at their first wait
DecoderStarted ==
    /\ receive_task = "running"
    /\ decode_task = "running"
    /\ raw_queue = <<>>
    /\ message_queue = <<>>
    /\ raw_sent = 0
    /\ decoded = <<>>

\* a source publishes a message of the given kind on ais.raw; it reaches the
\* queue of _receive_loop while that is subscribed (the finally block of
\* subscribe removes the queue when the loop ends)
RawPublish(k) ==
    /\ raw_sent < MaxRaw
    /\ raw_sent' = raw_sent + 1
    /\ raw_queue' = IF receive_task = "running"
                     THEN Append(raw_queue, [id |-> raw_sent + 1, kind |-> k])
                     ELSE raw_queue
    /\ UNCHANGED <<receive_task, decode_task, message_queue, decoded,
                   managerVars, busVars, renderVars, callVars, smVars,
                   screenVars, mainVars>>

\* _receive_loop takes a message: encode and put_line return, or encode
\* raises and the loop logs "Receive loop crashed" and raises again, which
\* ends the task
ReceiveLoop ==
    /\ receive_task = "running"
    /\ raw_queue # <<>>
    /\ IF EncodeRaises(Head(raw_queue))
       THEN /\ receive_task' = "crashed"
            /\ raw_queue' = <<>>
            /\ UNCHANGED message_queue
       ELSE /\ message_queue' = PutLine(message_queue, Head(raw_queue))
            /\ raw_queue' = Tail(raw_queue)
            /\ UNCHANGED receive_task
    /\ UNCHANGED <<decode_task, raw_sent, decoded,
                   managerVars, busVars, renderVars, callVars, smVars,
                   screenVars, mainVars>>

\* _decode_loop takes a sentence: decodes and publishes it, or logs "Failed
\* decoding message" and goes on
DecodeLoop ==
    /\ decode_task = "running"
    /\ message_queue # <<>>
    /\ message_queue' = Tail(message_queue)
    /\ decoded' = IF Head(message_queue).kind = "valid"
                   THEN Append(decoded, Head(message_queue).id)
                   ELSE decoded
    /\ UNCHANGED <<receive_task, decode_task, raw_queue, raw_sent,
                   managerVars, busVars, renderVars, callVars, smVars,
                   screenVars, mainVars>>

DecoderNext ==
    \/ \E k \in RawKinds : RawPublish(k)
    \/ ReceiveLoop
    \/ DecodeLoop

(***************************************************************************)
(* Properties of the decoder processor                                     *)
(***************************************************************************)
\* C33: whatever was published on ais.raw, the receive loop and the decode
\* loop of the decoder processor are both still running
C33_DecoderKeepsRunning ==
    receive_task = "running" /\ decode_task = "running"

(***************************************************************************)
(* Properties of the vessel manager                                        *)
(***************************************************************************)
Topic(e) == e.topic

\* the zone of the in-memory record of mmsi, none when it has no record
ZoneOf(vs, mmsi) ==
    IF mmsi \in Keys(vs) THEN Get(Lookup(vs, mmsi), "zone", NoneVal)
    ELSE NoneVal

\* the static fields of a record or row
StaticFields(r) ==
    <<r["name"], r["callsign"], r["type"], r["imo"],
      r["bow"], r["stern"], r["port"], r["starboard"]>>

\* an MMSI that is not exactly 9 digits or starts with 111
NotAShip(m) ==
    \/ m < 100000000
    \/ m > 999999999
    \/ m \div 1000000 = 111

\* C1: once vessel.identified was published for an MMSI, every later
\* vessel.updated for it carries has_static_data = 1, and the in-memory
\* has_static_data of a vessel, once 1, is 1 whenever the vessel is in the
\* map again (after other messages, eviction and re-appearance).
C1_StaticDataMonotonic ==
    /\ \A i \in 1..Len(events) :
          (events[i].topic = "vessel.updated"
             /\ events[i].payload["mmsi"] \in identifiedEver)
          => events[i].payload["has_static_data"] = 1
    /\ \A i \in 1..Len(vessels) :
          vessels[i].k \in staticEver => vessels[i].v["has_static_data"] = 1

\* C1 witness: an identified vessel came back from the repository (it was
\* out of the map) with a message that is not of type 5 and was updated.
C1_Witness ==
    /\ pc = "idle" /\ outcome = "updated"
    /\ cur["msg_type"] # 5
    /\ Str(cur["mmsi"]) \in identifiedEver
    /\ OnTopics(events, {"vessel.appeared"}) # <<>>
    /\ events[Len(events)].topic = "vessel.updated"
    /\ events[Len(events)].payload["has_static_data"] = 1

\* C2: every accepted message whose upsert succeeded ends with exactly one
\* vessel.updated carrying the merged in-memory record of its MMSI.
C2_UpdatedAlwaysPublished ==
    [][(pc = "merge" /\ pc' = "idle")
        => LET mmsi == Str(cur["mmsi"])
               updated == OnTopics(events', {"vessel.updated"})
           IN  /\ Len(updated) = 1
               /\ mmsi \in Keys(vessels')
               /\ updated[1].payload = Lookup(vessels', mmsi)]_vars

\* C3: when an update makes the map exceed max_tracked, the vessel whose
\* message was just processed is retained and no removed entry has a ts
\* above that of a kept one.
C3_JustProcessedRetained ==
    [][(pc = "merge" /\ pc' = "idle")
        => /\ Str(cur["mmsi"]) \in Keys(vessels')
           /\ \A i \in 1..Len(vessels) :
                 vessels[i].k \notin Keys(vessels')
                 => \A j \in 1..Len(vessels') :
                       vessels[i].v["ts"] <= vessels'[j].v["ts"]]_vars

\* C4: the in-memory map holds at most max_tracked entries in every state
\* another task can observe (the states between two steps of the handler).
C4_MapBounded == Len(vessels) <= MaxTracked

\* C4 witness: a vessel new to the map was added to the full map and kept,
\* an older entry having been trimmed.
C4_Witness ==
    /\ pc = "idle" /\ outcome = "updated"
    /\ Len(vessels) = MaxTracked
    /\ Cardinality(DOMAIN rows) > MaxTracked
    /\ OnTopics(events, {"vessel.first_seen"}) # <<>>

\* C5: for each handled message, with z_prev the zone of the vessel in the
\* map before the message and z_curr after it: when they differ exactly one
\* zone event is published (entered for none->zone, exited for zone->none,
\* moved with both names for zone->zone), when they are equal none is; no
\* zone event is published before the end of the handling.
C5_OneZoneEventPerChange ==
    [][/\ (pc # "idle" /\ pc' = "idle")
          => LET mmsi == Str(cur["mmsi"])
                 z_prev == ZoneOf(vessels, mmsi)
                 z_curr == ZoneOf(vessels', mmsi)
                 zone_events == OnTopics(events', ZoneTopics)
             IN  IF z_prev = z_curr THEN zone_events = <<>>
                 ELSE /\ Len(zone_events) = 1
                      /\ zone_events[1].payload["mmsi"] = mmsi
                      /\ IF z_prev = NoneVal
                         THEN /\ zone_events[1].topic = "vessel.zone_entered"
                              /\ zone_events[1].payload["zone"] = z_curr
                         ELSE IF z_curr = NoneVal
                         THEN /\ zone_events[1].topic = "vessel.zone_exited"
                              /\ zone_events[1].payload["zone"] = z_prev
                         ELSE /\ zone_events[1].topic = "vessel.zone_moved"
                              /\ zone_events[1].payload["from_zone"] = z_prev
                              /\ zone_events[1].payload["to_zone"] = z_curr
       /\ (pc' # "idle") => OnTopics(events', ZoneTopics) = <<>>
       /\ (pc = "idle" /\ pc' = "idle" /\ clock' = clock)
             => OnTopics(events', ZoneTopics) = <<>>]_vars

\* C5 witness: a vessel went from one zone into another.
C5_Witness ==
    /\ pc = "idle" /\ outcome = "updated"
    /\ OnTopics(events, {"vessel.zone_moved"}) # <<>>

C7_AppearedOrFirstSeen ==
    [][/\ (pc = "lookup" /\ pc' # "lookup")
          => events' = IF Str(cur["mmsi"]) \in DOMAIN rows
                       THEN << Event("vessel.appeared",
                                  [mmsi |-> Str(cur["mmsi"]),
                                   vessel |-> rows[Str(cur["mmsi"])],
                                   known |-> rows[Str(cur["mmsi"])]
                                                 ["has_static_data"]]) >>
                       ELSE << Event("vessel.first_seen",
                                  [mmsi |-> Str(cur["mmsi"]),
                                   has_static_data |-> (cur["msg_type"] = 5)]) >>
       /\ (pc = "idle" /\ pc' = "upsert") => events' = <<>>
       /\ (pc \in {"upsert", "merge"})
             => OnTopics(events', {"vessel.appeared", "vessel.first_seen"})
                = OnTopics(events, {"vessel.appeared", "vessel.first_seen"})]_vars

\* C8: an accepted message that is not of type 5, for a vessel that has a
\* record, leaves the static fields of the repository row and of the
\* in-memory record unchanged.
C8_StaticFieldsKept ==
    [][/\ (pc = "upsert" /\ pc' = "merge" /\ cur["msg_type"] # 5
             /\ Str(cur["mmsi"]) \in DOMAIN rows)
          => StaticFields(rows'[Str(cur["mmsi"])])
             = StaticFields(rows[Str(cur["mmsi"])])
       /\ (pc = "merge" /\ pc' = "idle" /\ cur["msg_type"] # 5
             /\ Str(cur["mmsi"]) \in Keys(vessels))
          => /\ Str(cur["mmsi"]) \in Keys(vessels')
             /\ StaticFields(Lookup(vessels', Str(cur["mmsi"])))
                = StaticFields(Lookup(vessels, Str(cur["mmsi"])))]_vars

(***************************************************************************)
(* Properties of the message bus                                           *)
(***************************************************************************)
\* a is b with some elements left out, the others in the same order
RECURSIVE IsSubsequence(_, _)
IsSubsequence(a, b) ==
    IF a = <<>> THEN TRUE
    ELSE IF b = <<>> THEN FALSE
    ELSE IF Head(a) = Head(b) THEN IsSubsequence(Tail(a), Tail(b))
    ELSE IsSubsequence(a, Tail(b))

\* the last n elements of seq (all of it when it is shorter)
LastN(seq, n) ==
    IF Len(seq) <= n THEN seq ELSE SubSeq(seq, Len(seq) - n + 1, Len(seq))

\* C9: what a subscription has received is a subsequence of what was
\* published on its topic, in the same order, without duplicates.
C9_ReceivedInPublishOrder ==
    \A s \in Subscriptions :
        sub_state[s] # "none"
        => IsSubsequence(received[s], published[sub_topic[s]])

\* C9 witness: a subscription whose queue overflowed has read past the
\* dropped messages.
C9_Witness ==
    \E s \in Subscriptions :
        /\ Len(offered[s]) > QueueMaxSize
        /\ Len(received[s]) >= 2
        /\ Len(received[s]) < Len(offered[s])

\* C10: as long as no publish reaches a subscription after its first read,
\* what it has read followed by what its queue holds is the last
\* QueueMaxSize messages published to it, in publish order; and a queue
\* never holds more than QueueMaxSize messages.
C10_LastMessagesKept ==
    \A s \in Subscriptions :
        /\ Len(queue[s]) <= QueueMaxSize
        /\ (sub_state[s] # "none" /\ quiet[s])
           => received[s] \o queue[s] = LastN(offered[s], QueueMaxSize)

\* C10 witness: more messages than the capacity were published before the
\* first read, and the subscription then drained its queue.
C10_Witness ==
    \E s \in Subscriptions :
        /\ quiet[s]
        /\ Len(offered[s]) > QueueMaxSize
        /\ Len(received[s]) = QueueMaxSize
        /\ queue[s] = <<>>

\* C28: after shutdown() every consumer iterating or blocked on a
\* subscription eventually sees the iteration end (end-of-stream or a
\* cancellation made by the bus), instead of waiting forever. In the code
\* only the consumer itself ends the iteration (Close), which nothing
\* obliges it to do.
C28_ConsumersEndAfterShutdown ==
    \A s \in Subscriptions :
        (sub_state[s] = "open" /\ s \in cleared) ~> (sub_state[s] # "open")

\* the subscriptions of topic that are registered: open, and not cleared
\* by a shutdown() since they subscribed
Live(topic) ==
    {s \in Subscriptions :
        sub_state[s] = "open" /\ sub_topic[s] = topic /\ s \notin cleared}

\* C29: the subscriber list of a topic holds exactly its live
\* subscriptions, each once, so none that its consumer abandoned; a
\* publish changes neither the queue of an abandoned subscription nor
\* what was offered to it; and abandoning a subscription that shutdown()
\* already removed ends it all the same.
C29_AbandonedRemoved ==
    /\ [](\A topic \in Topics :
            /\ Range(subs[topic]) = Live(topic)
            /\ Len(subs[topic]) = Cardinality(Live(topic)))
    /\ [][\A s \in Subscriptions :
            /\ sub_state[s] = "closed"
               => queue'[s] = queue[s] /\ offered'[s] = offered[s]
            /\ (s \in cleared /\ sub_state[s] = "open"
                  /\ sub_state'[s] = "closed")
               => subs' = subs]_vars

\* C29 witness: one subscription was abandoned and a message was published
\* on its topic afterwards; another was abandoned after shutdown() had
\* cleared the lists.
C29_Witness ==
    \E s \in Subscriptions, c \in Subscriptions :
        /\ sub_state[s] = "closed" /\ s \notin cleared
        /\ offered[s] # <<>>
        /\ \E i \in 1..Len(published[sub_topic[s]]) :
              published[sub_topic[s]][i] > offered[s][Len(offered[s])]
        /\ sub_state[c] = "closed" /\ c \in cleared

(***************************************************************************)
(* Properties of the manager's loop and of the repository                  *)
(***************************************************************************)
\* the decoded messages fed to the manager where its task is started and
\* stopped
LoopMessages ==
    {PositionReport(m, 5) : m \in ShipMMSI} \cup {PositionReport(TrackedShip, 1)}

IsPrefix(a, b) == Len(a) <= Len(b) /\ SubSeq(b, 1, Len(a)) = a

\* C11: the manager handles one message at a time, in the order it takes
\* them from its subscription: while the handling of a message is in
\* progress (at a repository call, or about to publish) no other message
\* becomes the current one, and every publish made is one more event of the
\* message in progress. So the handling of message k+1 starts only when that
\* of message k has finished, and two updates of one MMSI never interleave.
C11_OneAtATime ==
    [][pc # "idle" => /\ cur' = cur
                      /\ IsPrefix(events, events')]_vars

\* C11 witness: a second update of an MMSI that is already tracked is in
\* progress, suspended in the repository.
C11_Witness ==
    /\ pc = "upsert"
    /\ Str(cur["mmsi"]) \in Keys(vessels)
    /\ Lookup(vessels, Str(cur["mmsi"]))["ts"] < clock

\* C12: when the handling of a message raised an exception, the loop is
\* still running (unless stop() cancelled it since) and takes whatever
\* message comes next; the task never ends in another way than by
\* cancellation.
C12_LoopSurvivesException ==
    /\ task \in {"none", "running", "cancelled"}
    /\ (outcome = "raised" /\ task # "cancelled")
       => /\ task = "running"
          /\ \A message \in LoopMessages : ENABLED Receive(message)

\* C12 witness: the handler raised (KeyError) and the loop is running.
C12_Witness ==
    /\ outcome = "raised"
    /\ task = "running"
    /\ pc = "idle"

\* C13: an upsert on an MMSI that has a row never changes first_sight (and
\* never removes the row), never takes has_static_data from 1 to another
\* value, and changes a column other than last_sight only when it is the
\* upsert of a type 5 message (allow_static_update) for that MMSI.
C13_UpsertFrame ==
    [][\A m \in DOMAIN rows :
          /\ m \in DOMAIN rows'
          /\ rows'[m]["first_sight"] = rows[m]["first_sight"]
          /\ rows[m]["has_static_data"] = 1 => rows'[m]["has_static_data"] = 1
          /\ Without(rows'[m], {"last_sight"}) # Without(rows[m], {"last_sight"})
             => /\ pc = "upsert"
                /\ cur["msg_type"] = 5
                /\ Str(cur["mmsi"]) = m]_vars

\* C13 witness: a row with static data was upserted, without
\* allow_static_update, with other static values (a type 24 message with
\* shipname CHARLIE) at a later second than its first sight: the row came
\* back with the new last_sight and its name.
C13_Witness ==
    /\ pc = "merge"
    /\ cur["msg_type"] = 24
    /\ ship["has_static_data"] = 1
    /\ ship["name"] # "CHARLIE"
    /\ ship["first_sight"] < ship["last_sight"]

\* C14: when upsert_vessel fails (at execute, fetchone or commit) the
\* table is what it was before the call, the call returns None, and the
\* caller sees no exception: the handler returns and the loop goes on.
C14_FailedUpsertRolledBack ==
    [][(pc = "upsert" /\ pc' = "idle" /\ task' = task)
       => /\ rows' = rows
          /\ ship' = EmptyDict
          /\ outcome' = "skipped"]_vars

\* C14 witness: the upsert of a message for a vessel that has a row failed
\* at a later second than the row's last_sight, which the row still has.
C14_Witness ==
    /\ outcome = "skipped"
    /\ pc = "idle"
    /\ Str(cur["mmsi"]) \in DOMAIN rows
    /\ rows[Str(cur["mmsi"])]["last_sight"] < clock

\* C15: when upsert_vessel returned None the message is skipped: the map
\* is unchanged, no vessel.identified, zone event or vessel.updated is among
\* the message's events, and the loop is ready for the next message.
C15_SkippedOnNone ==
    [][outcome' = "skipped" /\ outcome # "skipped"
       => /\ vessels' = vessels
          /\ OnTopics(events', {"vessel.identified", "vessel.updated"}
                                  \cup ZoneTopics) = <<>>
          /\ pc' = "idle"
          /\ task' = "running"]_vars

\* C15 witness: the skipped message is a type 5 message for a vessel that is
\* tracked without static data (it would have published vessel.identified
\* and vessel.updated).
C15_Witness ==
    /\ outcome = "skipped"
    /\ cur["msg_type"] = 5
    /\ Str(cur["mmsi"]) \in Keys(vessels)
    /\ Lookup(vessels, Str(cur["mmsi"]))["has_static_data"] = 0

(***************************************************************************)
(* Properties of the render strategies                                     *)
(***************************************************************************)
\* a render starts in this step
RenderStarts == rpc # "render" /\ rpc' = "render"

\* C16: while a PeriodicRenderStrategy is running, a request_render call is
\* followed by a start of the render function (unless the strategy is
\* stopped first), whenever the call is made.
C16_RequestEventuallyRendered ==
    (kind = "periodic" /\ rtask = "running" /\ unserved)
        ~> (~unserved \/ rtask # "running")

\* C16 witness: request_render was called while a render is in progress.
C16_Witness ==
    /\ kind = "periodic"
    /\ rtask = "running"
    /\ rpc = "render"
    /\ unserved

\* C17: PeriodicRenderStrategy starts a render only when request_render was
\* called since the start of the render before: the k >= 1 calls made up to
\* the end of the interval wait are all taken by the one render that starts
\* then.
C17_RequestsCoalesce ==
    [][(kind = "periodic" /\ RenderStarts) => calls >= 1]_vars

\* C17 witness: a render that took two or more calls has returned, and the
\* loop waits with nothing to render.
C17_Witness ==
    /\ kind = "periodic"
    /\ rtask = "running"
    /\ rpc = "wait"
    /\ ended = "returned"
    /\ coalesced >= 2
    /\ ~dirty

\* C18: a render starts only when min_interval has passed since the
\* invocation before it ended, whether that one returned or raised.
C18_MinIntervalBetweenRenders ==
    [][(RenderStarts /\ ended \in {"returned", "raised"})
       => since_end >= MinInterval]_vars

\* the requests of a QueuedRenderStrategy that were neither dropped from a
\* full queue nor cancelled by stop(), in request order
Kept == SelectSeq(requested, LAMBDA d : d \notin dropped \cup abandoned)

\* the request taken from the queue that waits for the interval
InFlight == IF rpc = "sleep" THEN <<data>> ELSE <<>>

C20_LoopSurvivesRenderError ==
    /\ rtask \in {"none", "running", "cancelled"}
    /\ (ended = "raised" /\ rtask # "cancelled")
       => /\ rtask = "running"
          /\ (rpc = "wait" /\ (IF kind = "periodic" THEN dirty
                               ELSE event_queue # <<>>))
             => ENABLED StrategyLoop

\* C20 witness: a render is in progress after one that raised.
C20_Witness ==
    /\ ended = "raised"
    /\ rtask = "running"
    /\ rpc = "render"

\* C39: request_render(data) of a QueuedRenderStrategy returns normally,
\* whatever the pending queue held, and data is then the newest pending
\* request
C39_RequestRenderReturns ==
    [][(kind = "queued" /\ requested' # requested)
       => /\ request_error' = NoneVal
          /\ event_queue' # <<>>
          /\ event_queue'[Len(event_queue')] = requested'[Len(requested')]]_vars

(***************************************************************************)
(* Properties of start() and stop()                                        *)
(***************************************************************************)
Calls == {"manager.start", "manager.stop", "strategy.start", "strategy.stop"}

\* the number of live loops _task stands for
One(t) == IF t = "running" THEN 1 ELSE 0

\* C30: the manager and the render strategy each have at most one
\* background loop at any time, the one _task refers to (so a message
\* taken from the subscription is handled by one handler and two renders
\* never overlap), also after start() was called while the task was
\* running; and a start() or stop() that finds nothing to do changes
\* nothing.
C30_StartStopIdempotent ==
    /\ [](loops = One(task) /\ rloops = One(rtask))
    /\ [][noops' # noops
            => UNCHANGED notCalls]_vars

\* C30 witness: each of the four calls was made when it had nothing to do,
\* and both loops are running and have worked since.
C30_Witness ==
    /\ noops = Calls
    /\ task = "running" /\ outcome = "updated"
    /\ rtask = "running" /\ ended = "returned"

(***************************************************************************)
(* Properties of the screen manager                                        *)
(***************************************************************************)
\* start() has run and loaded at least one screen
Started == sm_loop # "none" /\ screens > 0

\* C21: once start() has loaded at least one screen, at most one screen is
\* active at any time, and whenever no switch is in progress the active
\* screen is the one at current_screen_index.
C21_OneActiveScreen ==
    Started
    => /\ Cardinality(active) <= 1
       /\ sm_pc = "idle" => active = {current_screen_index}

\* C22: when deactivate() of the current screen raised during a switch,
\* the index has moved to the target all the same and the target screen
\* was activated.
C22_DeactivateErrorDoesNotPreventActivation ==
    (raised = "deactivate" /\ sm_pc = "idle")
    => /\ current_screen_index = target_index
       /\ target_index \in active

\* C23: when _loop has handled a command taken at index i with N screens:
\* for next, screen (i+1) mod N is the current and active one; for
\* previous, screen (i-1) mod N; previous undoes next; with one screen,
\* or another action, no deactivate() or activate() is called and nothing
\* changes.
C23_NextPreviousWrap ==
    /\ [](\A n \in 1..MaxScreens : \A i \in 0..(n - 1) :
            /\ NextIndex(i, n) \in 0..(n - 1)
            /\ PreviousIndex(i, n) \in 0..(n - 1)
            /\ PreviousIndex(NextIndex(i, n), n) = i)
    /\ []((Started /\ sm_pc = "idle" /\ screens > 1) =>
            /\ action = "next" =>
                  /\ current_screen_index = (index_before + 1) % screens
                  /\ active = {current_screen_index}
            /\ action = "previous" =>
                  /\ current_screen_index = (index_before - 1) % screens
                  /\ active = {current_screen_index})
    /\ [][(sm_pc = "idle" /\ commands # <<>> /\ commands' = Tail(commands)
              /\ (screens <= 1 \/ Head(commands) \notin {"next", "previous"}))
            => /\ sm_pc' = "idle"
               /\ UNCHANGED <<current_screen_index, active>>]_vars

\* C40: once stop() has returned (its deactivate() not having raised) no
\* screen is active, whichever screen was the current one, and no command
\* handled afterwards activates one
C40_NoScreenActiveAfterStop ==
    /\ [](sm_stop = "returned" => active = {})
    /\ [][sm_stop = "returned" => active' \subseteq active]_vars

(***************************************************************************)
(* Properties of the screen plugins                                        *)
(***************************************************************************)
\* C24: from the return of deactivate() to the next activate(), the
\* screen's render function is not running (neither started nor still
\* in progress, so the renderer is neither cleared nor flushed) and no
\* event is taken from the screen's subscription.
C24_NoWorkAfterDeactivate ==
    /\ [](deactivated => rpc # "render")
    /\ [][(deactivated /\ deactivated') => inbox' >= inbox]_vars

(***************************************************************************)
(* Properties of the orchestrator                                          *)
(***************************************************************************)
RECURSIVE Reverse(_)
Reverse(seq) ==
    IF seq = <<>> THEN <<>> ELSE Append(Reverse(Tail(seq)), Head(seq))

\* C25: after a shutdown signal the components are stopped in the reverse
\* of the order in which they were started: at any moment what has been
\* stopped is the start order read backwards, as far as it has got.
C25_StoppedInReverseOrder ==
    signalled => IsPrefix(stopped, Reverse(started))

\* C26: when run() has ended after a shutdown signal, every component that
\* was started has been stopped, the bus has been shut down and run()
\* has returned 0, with or without a renderer in the configuration.
C26_ShutdownCompletes ==
    (signalled /\ mpc = "done")
    => /\ Range(started) \subseteq Range(stopped)
       /\ bus_shut
       /\ exit = "0"

\* the plugins of the categories of _init_plugins that the configuration
\* names and that do not raise
Healthy ==
    {p \in ConfiguredPlugins(configured) : p \notin failing}

\* _init_plugins has returned for the last category
PluginsInitialised ==
    \/ mpc \in {"renderer", "wait", "finally"}
    \/ mpc = "done" /\ exit # "1"

\* C27: a plugin whose creation or start() raised is in none of the lists
\* of running plugins and is never stopped, and once _init_plugins has
\* returned for the last category every other configured plugin, of the
\* same and of the other categories, has been started and is in its
\* list, in the order of the configuration.
C27_FailingPluginLeftOut ==
    /\ \A p \in failing :
          /\ p \notin Range(plugins[p[1]])
          /\ p \notin Range(started)
          /\ p \notin Range(stopped)
    /\ PluginsInitialised
       => /\ \A c \in DOMAIN plugins :
                /\ Range(plugins[c]) = {p \in Healthy : p[1] = c}
                /\ \A i, j \in 1..Len(plugins[c]) :
                      i < j => plugins[c][i][2] < plugins[c][j][2]
          /\ Healthy \subseteq Range(started)

\* C27 witness: the first source raised, the second source and a plugin
\* of a later category were started after it, and the shutdown has stopped
\* them.
C27_Witness ==
    /\ <<"sources", 1>> \in failing
    /\ <<"sources", 2>> \in Range(stopped)
    /\ <<"controllers", 1>> \in Range(stopped)
    /\ mpc = "done"

\* C35: the manager begins no repository operation once
\* VesselRepository.stop() has been called
C35_NoRepositoryCallAfterStop == "closing" \notin repository_calls

(***************************************************************************)
(* Properties of the manager's subscription                                *)
(***************************************************************************)
\* C34: every message published on the input topic after start() returned
\* is put into the queue of the manager's subscription, the first one
\* included
C34_SubscribedWhenStartReturns ==
    offered[ManagerSubscription] = published[InTopic]

(***************************************************************************)
(* Properties of the events published over the lifetime of the repository  *)
(***************************************************************************)
\* the place of an event's topic in the order of the publishes of one message
Rank(e) ==
    IF e.topic \in {"vessel.first_seen", "vessel.appeared"} THEN 1
    ELSE IF e.topic = "vessel.identified" THEN 2
    ELSE IF e.topic \in ZoneTopics THEN 3
    ELSE 4

\* C31: the events published for one message come in a fixed order:
\* first_seen or appeared, then identified, then the zone event, and
\* vessel.updated last, at most one of each
C31_PublishOrder ==
    \A i, j \in 1..Len(events) : i < j => Rank(events[i]) < Rank(events[j])

\* a first message inside a zone: first_seen, zone_entered and updated
C31_Witness ==
    /\ pc = "idle"
    /\ Len(events) = 3
    /\ events[1].topic = "vessel.first_seen"
    /\ events[2].topic = "vessel.zone_entered"
    /\ events[3].topic = "vessel.updated"

\* C32: an accepted message without lat and lon for a vessel that is in the
\* map leaves the lat, lon and zone of its in-memory record as they were
\* and publishes no zone event
C32_NoPositionNoZoneChange ==
    [][(/\ pc = "merge"
        /\ Str(cur["mmsi"]) \in Keys(vessels)
        /\ "lat" \notin DOMAIN cur
        /\ "lon" \notin DOMAIN cur)
       => \E mmsi \in {Str(cur["mmsi"])} :
             /\ mmsi \in Keys(vessels')
             /\ \A k \in {"lat", "lon", "zone"} :
                   Get(Lookup(vessels', mmsi), k, NoneVal)
                      = Get(Lookup(vessels, mmsi), k, NoneVal)
             /\ OnTopics(events', ZoneTopics) = <<>>]_vars

\* a type 5 message has been merged into the record of a vessel that was in
\* the map and is in a zone
C32_Witness ==
    /\ pc = "idle"
    /\ outcome = "updated"
    /\ cur["msg_type"] = 5
    /\ events # <<>>
    /\ events[1].topic \notin {"vessel.first_seen", "vessel.appeared"}
    /\ Get(Lookup(vessels, Str(cur["mmsi"])), "zone", NoneVal) = "harbour"
    /\ Get(Lookup(vessels, Str(cur["mmsi"])), "lat", NoneVal) = 1

\* the events of the given topic the step publishes
NewOn(topic) == OnTopics(NewEvents, {topic})

\* the zone a vessel.zone_exited or vessel.zone_moved names as its origin
Origin(e) ==
    IF e.topic = "vessel.zone_moved" THEN e.payload.from_zone
    ELSE e.payload.zone

C37_FirstSeenOnce ==
    [][\A i \in 1..Len(NewOn("vessel.first_seen")) :
          NewOn("vessel.first_seen")[i].payload.mmsi \notin firstSeenEver]_vars

\* C38: vessel.identified is published at most once per MMSI, whether the
\* vessel is still in the map or was evicted and loaded back
C38_IdentifiedOnce ==
    [][\A i \in 1..Len(NewOn("vessel.identified")) :
          NewOn("vessel.identified")[i].payload.mmsi \notin identifiedEver]_vars

(***************************************************************************)
(* Specifications                                                          *)
(***************************************************************************)
\* no call has been made
CallsInit == noops = {}

\* run() with a configuration that names no plugin and no renderer
NothingConfigured ==
    MainConstructed([c \in {"sources", "processors", "controllers"} |-> 0],
                    {}, FALSE)

Init ==
    /\ ManagerInit
    /\ BusInit
    /\ DecoderStarted
    /\ RenderConstructed("periodic", MinInterval)
    /\ CallsInit
    /\ SmInit
    /\ ScreenConstructed("table")
    /\ NothingConfigured

\* the vessel manager over the repository
Next == ManagerNext

Spec == Init /\ [][Next]_vars

SpecHistory == Init /\ [][HistoryNext]_vars

\* the manager's start() and the publishes that follow it
SpecStartup == Init /\ [][StartupNext]_vars

\* the message bus
SpecBus == Init /\ [][BusNext]_vars

\* a consumer suspended in "await q.get()" resumes when its queue holds a
\* message; nothing obliges anyone to publish, subscribe, abandon a
\* subscription or shut the bus down
SpecBusFair ==
    /\ Init
    /\ [][BusNext]_vars
    /\ \A s \in Subscriptions : WF_vars(Read(s))

\* the screen manager with up to MaxScreens screens
SpecScreens == Init /\ [][ScreensNext]_vars

SpecScreensStop == Init /\ [][ScreensStopNext]_vars

\* run() for every configuration of up to MaxPlugins plugins a category
InitMain ==
    /\ ManagerInit /\ BusInit /\ CallsInit /\ SmInit /\ DecoderStarted
    /\ RenderConstructed("periodic", MinInterval)
    /\ ScreenConstructed("table")
    /\ MainInit

SpecMain == InitMain /\ [][MainNext]_vars

\* run() with the manager's task at work beside it
ShutdownNext ==
    \/ MainNext
    \/ ManagerCallsRepository

SpecShutdown == InitMain /\ [][ShutdownNext]_vars

\* the decoder processor, fed messages of every kind
SpecDecoder == Init /\ [][DecoderNext]_vars

\* one screen plugin of any of the three kinds, with its periodic render
\* strategy
InitScreen ==
    /\ ManagerInit /\ BusInit /\ CallsInit /\ SmInit /\ DecoderStarted
    /\ RenderConstructed("periodic", MinInterval)
    /\ ScreenInit
    /\ NothingConfigured

SpecScreen == InitScreen /\ [][ScreenNext]_vars

\* the vessel manager's task: started, fed position reports, stopped
LoopNext ==
    \/ Start
    \/ Stop
    \/ Tick
    \/ \E message \in LoopMessages : Receive(message)
    \/ GetVesselDone
    \/ GetVesselError
    \/ UpsertVessel
    \/ UpsertVesselError
    \/ MergeAndPublish

SpecLoop == Init /\ [][LoopNext]_vars

\* the manager and a render strategy of either class, started and stopped
\* in any order and any number of times
LifecycleNext ==
    \/ Start
    \/ StartRunning
    \/ Stop
    \/ StopIdle
    \/ Receive(PositionReport(TrackedShip, 1))
    \/ GetVesselDone
    \/ UpsertVessel
    \/ MergeAndPublish
    \/ RenderTick
    \/ StrategyStart
    \/ StrategyStartRunning
    \/ StrategyStop
    \/ StrategyStopIdle
    \/ PeriodicRequestRender
    \/ QueuedRequestRender
    \/ PeriodicWake
    \/ QueuedGet
    \/ SleepDone
    \/ RenderReturns

InitLifecycle ==
    /\ ManagerInit /\ BusInit /\ CallsInit /\ SmInit /\ DecoderStarted
    /\ ScreenConstructed("table")
    /\ NothingConfigured
    /\ \E k \in Kinds : RenderConstructed(k, MinInterval)

SpecLifecycle == InitLifecycle /\ [][LifecycleNext]_vars

\* one render strategy of either class
InitRender ==
    /\ ManagerInit /\ BusInit /\ RenderInit /\ CallsInit /\ SmInit
    /\ DecoderStarted
    /\ ScreenConstructed("table")
    /\ NothingConfigured

SpecRender == InitRender /\ [][RenderNext]_vars

\* the same, where time passes and the event loop runs the strategy's task
\* whenever it can go on, and every render ends
SpecRenderFair ==
    /\ InitRender
    /\ [][RenderNext]_vars
    /\ WF_vars(RenderTick)
    /\ WF_vars(StrategyLoop)

====
